---- MODULE Spec2Model ----
(***************************************************************************)
(* Model of `kubebuilder alpha update`: the three-way scaffold update      *)
(* engine (Update.Validate followed by Update.Update) acting on a git      *)
(* repository, a release server and two generator binaries.                *)
(*                                                                         *)
(* A file's content is a tuple of regions (integers); the empty tuple is   *)
(* "no such file".  A tree maps every path to a content.  Version strings  *)
(* are tuples of one-character strings so that prefixing and semantic      *)
(* version parsing are computed, not assumed.                              *)
(***************************************************************************)
EXTENDS Integers, Sequences, FiniteSets, TLC

VARIABLES
    opts,      \* the Update struct: FromVersion, FromBranch, CliVersion (+ Force, ToVersion)
    repo,      \* the git repository: branches, HEAD, commits, index, working tree
    pc,        \* the step the command is at
    err,       \* the error returned so far: <<>> is nil, else the chain of messages
    tempDir,   \* the value returned by downloadKubebuilderBinary ("" when none)
    cmds,      \* every external invocation made so far, in order, with its exit code
    genOut,    \* what each generator version emits (fixed the first time it runs)
    world,     \* what the command starts from: the initial repository and flags
    merged,    \* result of the merge attempt: "none", "clean", "conflict", "fatal"
    faulted,   \* whether a tool has failed for a reason outside the repository
    path,      \* the PATH of the process: the directories searched for a binary
    peer       \* a second run of the command against the same repository, while
               \* the other one acts: its flags, position, error, log, PATH

vars == <<opts, repo, pc, err, tempDir, cmds, genOut, world, merged, faulted, path, peer>>

(***************************************************************************)
(* Bounds                                                                  *)
(***************************************************************************)
\* region values 0..MaxVal: 0 is the pristine value, others are edits
MaxVal == 2

Vals == 0 .. MaxVal
\* values a user edit may put into a region
UserVals == {0, 1}
\* the value standing for a region with conflict markers (<<<<<<< HEAD ...)
Marker == -1

PROJECT == "PROJECT"
ScaffoldPaths == {"api.go", "main.go"}
Paths == {PROJECT} \cup ScaffoldPaths

Absent == <<>>
\* a scaffold file has two regions that merge independently
FileContents == {<<a, b>> : a \in Vals, b \in Vals}
Pristine == <<0, 0>>
\* what the user's branch may hold for a path: api.go may be missing or edited
\* in either region, main.go is pristine or edited in its first region
UserContents(p) ==
    IF p = "api.go" THEN {Absent} \cup {<<a, b>> : a \in UserVals, b \in UserVals}
    ELSE {Pristine, <<1, 0>>}

EmptyTree == [p \in Paths |-> Absent]

(***************************************************************************)
(* Strings and versions                                                    *)
(***************************************************************************)
RECURSIVE Str(_)
Str(s) == IF s = <<>> THEN "" ELSE Head(s) \o Str(Tail(s))

\* unicode.IsSpace over the characters the model writes
Whitespace == {" ", "\t"}

RECURSIVE TrimLeftOnly(_)
RECURSIVE TrimSpace(_)
\* variant: only leading whitespace is removed
TrimLeftOnly(s) == IF s # <<>> /\ Head(s) \in Whitespace THEN TrimLeftOnly(Tail(s)) ELSE s

\* strings.TrimSpace over a string given as the sequence of its characters
\* (a run of characters without whitespace is written as one element)
TrimSpace(s) ==
    IF s = <<>> THEN s
    ELSE IF Head(s) \in Whitespace THEN TrimSpace(Tail(s))
    ELSE IF s[Len(s)] \in Whitespace THEN TrimSpace(SubSeq(s, 1, Len(s) - 1))
    ELSE s

Digits == {"0", "1", "2", "3", "4", "5", "6", "7", "8", "9"}

V450 == <<"v", "4", ".", "5", ".", "0">>
V460 == <<"v", "4", ".", "6", ".", "0">>
\* values of --from-version: none, without prefix, canonical, shorthand, malformed
FlagVersions == { <<>>,
                  <<"4", ".", "6", ".", "0">>,
                  V450,
                  V460,
                  <<"v", "4">>,
                  <<"4", ".", "x">> }
\* values of cliVersion recorded in the PROJECT file
ProjectVersions == { V450, <<"4", ".", "5", ".", "0">> }
\* the version of the locally installed binary (the target of the update)
TargetVersions == { V460 }

\* strings.HasPrefix(s, "v")
HasPrefixV(s) == Len(s) >= 1 /\ s[1] = "v"

\* semver.parseInt: index of the first character after the leading integer of
\* s[i..], or 0 when there is no integer there or it has a leading zero
RECURSIVE DigitsEnd(_, _)
DigitsEnd(s, i) == IF i <= Len(s) /\ s[i] \in Digits THEN DigitsEnd(s, i + 1) ELSE i

ParseInt(s, i) ==
    IF i > Len(s) \/ s[i] \notin Digits THEN 0
    ELSE LET j == DigitsEnd(s, i)
         IN IF s[i] = "0" /\ j # i + 1 THEN 0 ELSE j

\* variant: a version check that only looks for the "v" prefix
SemverPrefixOnly(s) == HasPrefixV(s)

\* variant: a version check that accepts every string
SemverAcceptsAll(s) == TRUE

\* golang.org/x/mod/semver.IsValid on inputs without pre-release or build
\* suffix: "v" MAJOR [ "." MINOR [ "." PATCH ] ]
SemverIsValid(s) ==
    IF ~HasPrefixV(s) THEN FALSE
    ELSE LET a == ParseInt(s, 2)
         IN IF a = 0 THEN FALSE
            ELSE IF a > Len(s) THEN TRUE
            ELSE IF s[a] # "." THEN FALSE
            ELSE LET b == ParseInt(s, a + 1)
                 IN IF b = 0 THEN FALSE
                    ELSE IF b > Len(s) THEN TRUE
                    ELSE IF s[b] # "." THEN FALSE
                    ELSE LET c == ParseInt(s, b + 1)
                         IN c # 0 /\ c > Len(s)

\* variant: the override is prefixed with "v" without looking at it
PrefixAlways(fromVersion, cliVersion) ==
    IF fromVersion # <<>>
    THEN [FromVersion |-> <<"v">> \o fromVersion, CliVersion |-> <<"v">> \o fromVersion]
    ELSE [FromVersion |-> fromVersion, CliVersion |-> cliVersion]

\* defineFromVersion: the override, prefixed with "v" when it has none, wins
\* over the version read from PROJECT
DefineFromVersion(fromVersion, cliVersion) ==
    IF fromVersion # <<>>
    THEN LET f == IF ~HasPrefixV(fromVersion) THEN <<"v">> \o fromVersion ELSE fromVersion
         IN [FromVersion |-> f, CliVersion |-> f]
    ELSE [FromVersion |-> fromVersion, CliVersion |-> cliVersion]

\* the release artifact URL for a version
ReleaseURL(v) ==
    "https://github.com/kubernetes-sigs/kubebuilder/releases/download/" \o Str(v) \o "/kubebuilder_os_arch"

(***************************************************************************)
(* The git repository                                                      *)
(***************************************************************************)
\* the name the squashed branch gets when no name is given, without the version
DefaultOutputPrefix == "kubebuilder-alpha-update-to-"
\* a value of --output-branch
CustomOutputBranch == "my-custom-branch"

BranchNames == {"main", "dev", "gone", "ancestor", "current", "upgrade", "merge", CustomOutputBranch}
                  \cup {DefaultOutputPrefix \o Str(v) : v \in TargetVersions}

\* a branch that does not exist points at commit 0
NoCommit == 0

HeadCommit(r) == r.branches[r.head]
TreeOf(r, c) == IF c = NoCommit THEN EmptyTree ELSE r.commits[c].tree
HeadTree(r) == TreeOf(r, HeadCommit(r))
BranchExists(r, b) == b \in BranchNames /\ r.branches[b] # NoCommit
IsClean(r) == r.wt = HeadTree(r) /\ r.index = HeadTree(r) /\ ~r.unmerged

RECURSIVE AncestorsOf(_, _)
AncestorsOf(r, c) ==
    IF c = NoCommit THEN {}
    ELSE {c} \cup UNION {AncestorsOf(r, r.commits[c].parents[i]) : i \in DOMAIN r.commits[c].parents}

SetMax(S) == CHOOSE x \in S : \A y \in S : y <= x

\* git merge-base: commits are numbered in creation order, so the best common
\* ancestor of two commits is the youngest one
MergeBase(r, a, b) ==
    LET common == AncestorsOf(r, a) \cap AncestorsOf(r, b)
    IN IF common = {} THEN NoCommit ELSE SetMax(common)

HasConflictMarkers(tree) ==
    \E p \in Paths : \E i \in DOMAIN tree[p] : tree[p][i] = Marker

\* result of one external command: the repository after it and its exit code
Res(r, code) == [r |-> r, code |-> code]

\* variant: the branch is created but not checked out (git branch)
BranchWithoutSwitch(r, name, start) ==
    IF BranchExists(r, name) THEN Res(r, 128)
    ELSE IF start = "" THEN Res([r EXCEPT !.branches[name] = HeadCommit(r)], 0)
    ELSE IF ~BranchExists(r, start) THEN Res(r, 128)
    ELSE Res([r EXCEPT !.branches[name] = r.branches[start]], 0)

\* variant: the start point is ignored, the branch starts at HEAD
StartPointIgnored(r, name, start) ==
    IF BranchExists(r, name) THEN Res(r, 128)
    ELSE Res([r EXCEPT !.branches[name] = HeadCommit(r), !.head = name], 0)

\* variant: a branch that exists is reset and checked out (git checkout -B)
CheckoutNewResets(r, name, start) ==
    LET c == IF start = "" THEN HeadCommit(r) ELSE r.branches[start]
    IN IF start # "" /\ ~BranchExists(r, start) THEN Res(r, 128)
       ELSE Res([r EXCEPT !.branches[name] = c, !.head = name,
                          !.wt = IF start = "" THEN @ ELSE TreeOf(r, c),
                          !.index = IF start = "" THEN @ ELSE TreeOf(r, c)], 0)

\* git checkout -b <name> [<start>]   (start = "" : from HEAD, tree untouched)
GitCheckoutNew(r, name, start) ==
    IF BranchExists(r, name) THEN Res(r, 128)
    ELSE IF start = ""
    THEN Res([r EXCEPT !.branches[name] = HeadCommit(r), !.head = name], 0)
    ELSE IF ~BranchExists(r, start) THEN Res(r, 128)
    ELSE IF ~IsClean(r) /\ TreeOf(r, r.branches[start]) # HeadTree(r) THEN Res(r, 1)
    ELSE LET c == r.branches[start]
             keep == ~IsClean(r)
         IN Res([r EXCEPT !.branches[name] = c, !.head = name,
                          !.wt = IF keep THEN @ ELSE TreeOf(r, c),
                          !.index = IF keep THEN @ ELSE TreeOf(r, c)], 0)

\* git add . (and git add --all, run from the root of the repository)
GitAddAll(r) == Res([r EXCEPT !.index = r.wt, !.unmerged = FALSE], 0)

\* variant: a commit is made even when nothing changed (--allow-empty)
CommitAllowsEmpty(r, msg) ==
    IF r.unmerged THEN Res(r, 128)
    ELSE LET parents == IF r.mergeHead = NoCommit THEN <<HeadCommit(r)>>
                        ELSE <<HeadCommit(r), r.mergeHead>>
             c == [parents |-> parents, tree |-> r.index, msg |-> msg]
         IN Res([r EXCEPT !.commits = Append(@, c),
                          !.branches[r.head] = Len(r.commits) + 1,
                          !.mergeHead = NoCommit], 0)

\* git commit -m <msg>: exit 1 when there is nothing to commit
GitCommit(r, msg) ==
    IF r.unmerged THEN Res(r, 128)
    ELSE IF r.index = HeadTree(r) /\ r.mergeHead = NoCommit THEN Res(r, 1)
    ELSE LET parents == IF r.mergeHead = NoCommit THEN <<HeadCommit(r)>>
                        ELSE <<HeadCommit(r), r.mergeHead>>
             c == [parents |-> parents, tree |-> r.index, msg |-> msg]
         IN Res([r EXCEPT !.commits = Append(@, c),
                          !.branches[r.head] = Len(r.commits) + 1,
                          !.mergeHead = NoCommit], 0)

\* variant: the working tree is made equal to the tree of the branch, so
\* a path the branch does not have is removed
OverlayRemovesMissing(r, branch) ==
    IF ~BranchExists(r, branch) THEN Res(r, 128)
    ELSE LET t == TreeOf(r, r.branches[branch])
         IN IF t = EmptyTree THEN Res(r, 1)
            ELSE Res([r EXCEPT !.wt = t, !.index = t], 0)

\* variant: the overlay leaves the descriptor as it was
OverlaySkipsDescriptor(r, branch) ==
    IF ~BranchExists(r, branch) THEN Res(r, 128)
    ELSE LET t == TreeOf(r, r.branches[branch])
         IN IF t = EmptyTree THEN Res(r, 1)
            ELSE Res([r EXCEPT !.wt = [p \in Paths |-> IF t[p] # Absent /\ p # PROJECT THEN t[p] ELSE r.wt[p]],
                               !.index = [p \in Paths |-> IF t[p] # Absent /\ p # PROJECT THEN t[p] ELSE r.index[p]]], 0)

\* variant: the overlay leaves api.go as it was
OverlaySkipsFile(r, branch) ==
    IF ~BranchExists(r, branch) THEN Res(r, 128)
    ELSE LET t == TreeOf(r, r.branches[branch])
         IN IF t = EmptyTree THEN Res(r, 1)
            ELSE Res([r EXCEPT !.wt = [p \in Paths |-> IF t[p] # Absent /\ p # "api.go" THEN t[p] ELSE r.wt[p]],
                               !.index = [p \in Paths |-> IF t[p] # Absent /\ p # "api.go" THEN t[p] ELSE r.index[p]]], 0)

\* git checkout <branch> -- .   (overlay: paths of <branch> are written, no
\* path is removed)
GitCheckoutPaths(r, branch) ==
    IF ~BranchExists(r, branch) THEN Res(r, 128)
    ELSE LET t == TreeOf(r, r.branches[branch])
         IN IF t = EmptyTree THEN Res(r, 1)
            ELSE Res([r EXCEPT !.wt = [p \in Paths |-> IF t[p] # Absent THEN t[p] ELSE r.wt[p]],
                               !.index = [p \in Paths |-> IF t[p] # Absent THEN t[p] ELSE r.index[p]]], 0)

\* variant: the clean-up misses the entries other than main.go
FindRmMissesEntries(r) ==
    Res([r EXCEPT !.wt = [p \in Paths |-> IF p = "main.go" THEN Absent ELSE r.wt[p]]], 0)

\* find . -mindepth 1 -maxdepth 1 ! -name .git ! -name PROJECT -exec rm -rf {} +
FindRm(r) == Res([r EXCEPT !.wt = [p \in Paths |-> IF p = PROJECT THEN r.wt[p] ELSE Absent]], 0)

\* <binary> alpha generate: fails without a PROJECT file, else writes the
\* files of its scaffold `out` over the working tree (it removes nothing)
RunGenerator(r, out) ==
    IF r.wt[PROJECT] = Absent THEN Res(r, 1)
    ELSE Res([r EXCEPT !.wt = [p \in Paths |->
                 IF p \in ScaffoldPaths /\ out[p] # Absent THEN out[p] ELSE r.wt[p]]], 0)

\* three-way merge of one region
MergeRegion(b, o, t) ==
    IF o = t THEN o
    ELSE IF o = b THEN t
    ELSE IF t = b THEN o
    ELSE Marker

\* three-way merge of one file: base b, ours o, theirs t.  A file changed on
\* one side only takes that side; a file deleted on one side and changed on
\* the other is a modify/delete conflict (the changed file is kept, without
\* markers); otherwise regions merge one by one (with no common base, a
\* region that differs conflicts).
MergeFile(b, o, t) ==
    IF o = t THEN [content |-> o, conflict |-> FALSE]
    ELSE IF o = b THEN [content |-> t, conflict |-> FALSE]
    ELSE IF t = b THEN [content |-> o, conflict |-> FALSE]
    ELSE IF o = Absent THEN [content |-> t, conflict |-> TRUE]
    ELSE IF t = Absent THEN [content |-> o, conflict |-> TRUE]
    ELSE LET m == [i \in DOMAIN o |->
                      IF b = Absent THEN (IF o[i] = t[i] THEN o[i] ELSE Marker)
                      ELSE MergeRegion(b[i], o[i], t[i])]
         IN [content |-> m, conflict |-> \E i \in DOMAIN m : m[i] = Marker]

MergeTrees(base, ours, theirs) == [p \in Paths |-> MergeFile(base[p], ours[p], theirs[p])]

\* the message git gives a merge commit it makes itself
DefaultMergeMsg(other, into) == "Merge branch '" \o other \o "' into " \o into

\* git merge <other>: exit 0 with a merge commit made by git when the merge
\* is clean, exit 1 with the conflicted result left in the working tree and
\* no commit when it is not
GitMerge(r, other) ==
    IF ~BranchExists(r, other) THEN Res(r, 1)
    ELSE LET theirs == r.branches[other]
             ours == HeadCommit(r)
             base == MergeBase(r, ours, theirs)
         IN IF ~IsClean(r) THEN Res(r, 128)
            ELSE IF base = theirs THEN Res(r, 0)
            ELSE IF base = ours
            THEN Res([r EXCEPT !.branches[r.head] = theirs,
                               !.wt = TreeOf(r, theirs), !.index = TreeOf(r, theirs)], 0)
            ELSE LET m == MergeTrees(TreeOf(r, base), TreeOf(r, ours), TreeOf(r, theirs))
                     tree == [p \in Paths |-> m[p].content]
                 IN IF \E p \in Paths : m[p].conflict
                    THEN Res([r EXCEPT !.wt = tree, !.unmerged = TRUE, !.mergeHead = theirs], 1)
                    ELSE Res([r EXCEPT
                            !.commits = Append(@, [parents |-> <<ours, theirs>>, tree |-> tree,
                                                   msg |-> DefaultMergeMsg(other, r.head)]),
                            !.branches[r.head] = Len(r.commits) + 1,
                            !.wt = tree, !.index = tree], 0)

\* git checkout <branch>: refused when the branch does not exist or the work
\* in progress would be lost
GitCheckout(r, branch) ==
    IF ~BranchExists(r, branch) THEN Res(r, 1)
    ELSE IF r.unmerged \/ (~IsClean(r) /\ TreeOf(r, r.branches[branch]) # HeadTree(r)) THEN Res(r, 1)
    ELSE LET keep == ~IsClean(r)
         IN Res([r EXCEPT !.head = branch,
                          !.wt = IF keep THEN @ ELSE TreeOf(r, r.branches[branch]),
                          !.index = IF keep THEN @ ELSE TreeOf(r, r.branches[branch])], 0)

\* variant: a branch that exists is checked out as it is, not reset
CheckoutKeepsExisting(r, name, start) ==
    IF BranchExists(r, name) THEN GitCheckout(r, name) ELSE GitCheckoutNew(r, name, start)

\* git checkout -B <name> <start>: the branch is created, or reset when it
\* exists, at the head of <start>, and checked out
GitCheckoutReset(r, name, start) ==
    IF name \notin BranchNames \/ ~BranchExists(r, start) THEN Res(r, 128)
    ELSE IF r.unmerged THEN Res(r, 1)
    ELSE LET c == r.branches[start]
         IN Res([r EXCEPT !.branches[name] = c, !.head = name,
                          !.wt = TreeOf(r, c), !.index = TreeOf(r, c)], 0)

\* variant: the wipe spares the descriptor, as the clean-up of ancestor does
WipeSparesProject(r) == FindRm(r)

\* find . -mindepth 1 -maxdepth 1 ! -name '.git' -exec rm -rf {} +
FindRmAll(r) == Res([r EXCEPT !.wt = EmptyTree], 0)

\* variant: the path is left as the merge made it
RestoreSkipped(r, source, file) == Res(r, 0)

\* git restore --source <source> --staged --worktree <path>: the path gets
\* the content it has in <source>, in the working tree and in the index; a
\* path neither <source> nor the index knows matches nothing
GitRestore(r, source, file) ==
    IF file \notin Paths \/ ~BranchExists(r, source) THEN Res(r, 128)
    ELSE LET t == TreeOf(r, r.branches[source])
         IN IF t[file] = Absent /\ r.index[file] = Absent THEN Res(r, 1)
            ELSE Res([r EXCEPT !.wt[file] = t[file], !.index[file] = t[file]], 0)

(***************************************************************************)
(* Running external commands                                               *)
(***************************************************************************)
\* exit codes a command may end with when its tool breaks for a reason the
\* model does not track (I/O error, missing binary, ...)
FailCodes == {1, 128}
\* the same for git merge, whose exit code 1 is reserved for conflicts
\* (-1: the process could not be started, so there is no exit code)
MergeFailCodes == {-1, 2, 128}

NoFault == [at |-> 0, code |-> 0]
\* at most one external fault per stage: command number `at` ends with `code`
Faults(n, codes) == {NoFault} \cup {[at |-> k, code |-> c] : k \in 1 .. n, c \in codes}

\* the check every call site makes: `if err := cmd.Run(); err != nil`
CmdFailed(code) == code # 0

\* a stage in progress: repository, the exit code and number of the command
\* that failed (0: none), the log of commands
Begin(stage, r, log) == [stage |-> stage, r |-> r, code |-> 0, at |-> 0, log |-> log, fault |-> FALSE]

\* run command number k of a stage, unless an earlier one failed
Exec(st, k, fault, tool, args, out) ==
    IF st.at # 0 THEN st
    ELSE LET res == IF fault.at = k THEN Res(st.r, fault.code) ELSE out
         IN [stage |-> st.stage, r |-> res.r, code |-> res.code,
             at |-> IF CmdFailed(res.code) THEN k ELSE 0,
             log |-> Append(st.log, [stage |-> st.stage, tool |-> tool, args |-> args, code |-> res.code]),
             fault |-> fault.at = k]

(***************************************************************************)
(* Initial states: a repository with branches main and dev, the flags of   *)
(* the command line, the version recorded in PROJECT                       *)
(***************************************************************************)
\* the directory of the locally installed kubebuilder
InstalledDir == "/usr/local/bin"

MainProject == <<1>>
DevTree == [p \in Paths |-> IF p = PROJECT THEN <<2>> ELSE IF p = "api.go" THEN <<1, 1>> ELSE Pristine]
\* an uncommitted edit in the working tree
DirtyContent == <<MaxVal, MaxVal>>

InitRepo(project, user, head, dirty) ==
    LET mainTree == [p \in Paths |-> IF p = PROJECT THEN project ELSE user[p]]
        commits == << [parents |-> <<>>, tree |-> mainTree, msg |-> "init"],
                      [parents |-> <<1>>, tree |-> DevTree, msg |-> "dev work"] >>
        headTree == IF head = "main" THEN mainTree ELSE DevTree
    IN [branches |-> [b \in BranchNames |-> IF b = "main" THEN 1 ELSE IF b = "dev" THEN 2 ELSE NoCommit],
        head |-> head,
        commits |-> commits,
        index |-> headTree,
        wt |-> IF dirty THEN [headTree EXCEPT !["api.go"] = DirtyContent] ELSE headTree,
        unmerged |-> FALSE,
        mergeHead |-> NoCommit]

\* the command is run once: there is no second run
NoPeer == [pc |-> "none"]

\* a repository in which an earlier run that failed left its branch ancestor
\* behind, at the commit it was created from
LeftBehind(r) == [r EXCEPT !.branches["ancestor"] = r.branches["main"]]

\* the flags of the squash and of the platform integration, none given
NoSquash == [Squash |-> FALSE, PreservePath |-> <<>>, OutputBranch |-> "", CommitMessage |-> "",
             OpenPR |-> FALSE, OpenIssue |-> FALSE]

Init ==
    /\ \E fv \in FlagVersions, fb \in {"", "dev", "gone"}, force \in BOOLEAN, tv \in TargetVersions :
          opts = [FromVersion |-> fv, FromBranch |-> fb, CliVersion |-> <<>>,
                  Force |-> force, ToVersion |-> tv] @@ NoSquash
    /\ \E project \in {Absent, MainProject},
          user \in {t \in [ScaffoldPaths -> FileContents \cup {Absent}] : \A p \in ScaffoldPaths : t[p] \in UserContents(p)},
          head \in {"main", "dev"}, state \in {"norepo", "dirty", "clean"},
          cli \in ProjectVersions, leftover \in BOOLEAN :
          /\ repo = IF leftover THEN LeftBehind(InitRepo(project, user, head, state = "dirty"))
                    ELSE InitRepo(project, user, head, state = "dirty")
          /\ world = [repo0 |-> repo, opts0 |-> opts, inRepo |-> state # "norepo", projCli |-> cli,
                    path0 |-> <<InstalledDir>>]
    /\ pc = "validateGitRepo"
    /\ err = <<>>
    /\ tempDir = ""
    /\ cmds = <<>>
    /\ genOut = {}
    /\ merged = "none"
    /\ faulted = FALSE
    /\ path = <<InstalledDir>>
    /\ peer = NoPeer

(***************************************************************************)
(* Validate (PreRunE)                                                      *)
(***************************************************************************)
\* return of a failed validation: fmt.Errorf("<prefix>: %w", err); the
\* command then ends without running Update
Fail(prefix, inner) == pc' = "done" /\ err' = <<prefix, inner>>

\* git rev-parse --git-dir
GitRevParseGitDir(r) == Res(r, IF world.inRepo THEN 0 ELSE 128)
\* variant: the output of git status is not looked at
PorcelainIgnored(r) == TRUE
\* git status --porcelain: its output is empty exactly when nothing is
\* modified, staged or untracked
GitStatusPorcelain(r) == Res(r, 0)
PorcelainEmpty(r) == IsClean(r)
\* git rev-parse --verify <branch>
GitRevParseVerify(r, b) == Res(r, IF BranchExists(r, b) THEN 0 ELSE 128)

ValidateGitRepo ==
    /\ pc = "validateGitRepo"
    /\ \E f \in Faults(2, FailCodes) :
          LET s1 == Exec(Begin("validateGitRepo", repo, cmds), 1, f, "git", "rev-parse --git-dir", GitRevParseGitDir(repo))
              s2 == Exec(s1, 2, f, "git", "status --porcelain", GitStatusPorcelain(s1.r))
              prefix == "failed to validate git repository"
          IN /\ cmds' = s2.log
             /\ repo' = s2.r
             /\ faulted' = (faulted \/ s2.fault)
             /\ IF s2.at = 1 THEN Fail(prefix, "not in a git repository")
                ELSE IF s2.at = 2 THEN Fail(prefix, "failed to check branch status")
                ELSE IF ~PorcelainEmpty(s2.r)
                THEN Fail(prefix, "working directory has uncommitted changes. Please commit or stash them before updating")
                ELSE pc' = "validateFromBranch" /\ err' = err
    /\ UNCHANGED <<peer, opts, tempDir, genOut, world, merged, path>>

\* variant: the default base branch is "master"
DefaultsToMaster(fromBranch) == IF fromBranch = "" THEN "master" ELSE fromBranch

\* the branch used when --from-branch is not given
DefaultFromBranch(fromBranch) == IF fromBranch = "" THEN "main" ELSE fromBranch

ValidateFromBranch ==
    /\ pc = "validateFromBranch"
    /\ \E f \in Faults(1, FailCodes) :
          LET fb == DefaultFromBranch(opts.FromBranch)
              s1 == Exec(Begin("validateFromBranch", repo, cmds), 1, f, "git", "rev-parse --verify " \o fb,
                         GitRevParseVerify(repo, fb))
          IN /\ opts' = [opts EXCEPT !.FromBranch = fb]
             /\ cmds' = s1.log
             /\ repo' = s1.r
             /\ faulted' = (faulted \/ s1.fault)
             /\ IF s1.at # 0
                THEN Fail("failed to validate --from-branch", fb \o " branch does not exist locally. Run 'git branch -a' to see all available branches")
                ELSE pc' = "loadConfigFile" /\ err' = err
    /\ UNCHANGED <<peer, tempDir, genOut, world, merged, path>>

\* loadConfigFile, GetCliVersion and defineFromVersion: the descriptor is read
\* from the working directory; it may be missing or unreadable
LoadConfigFile ==
    /\ pc = "loadConfigFile"
    /\ \E readable \in BOOLEAN :
          IF repo.wt[PROJECT] = Absent
          THEN /\ Fail("failed to load the PROJECT file", "no PROJECT file found. Make sure you're in the project root directory")
               /\ opts' = opts
               /\ faulted' = faulted
          ELSE IF ~readable
          THEN /\ Fail("failed to load the PROJECT file", "fail to load the PROJECT file")
               /\ opts' = opts
               /\ faulted' = TRUE
          ELSE LET d == DefineFromVersion(opts.FromVersion, world.projCli)
               IN /\ opts' = [opts EXCEPT !.FromVersion = d.FromVersion, !.CliVersion = d.CliVersion]
                  /\ pc' = "validateSemVerVersion"
                  /\ err' = err
                  /\ faulted' = faulted
    /\ UNCHANGED <<peer, repo, tempDir, cmds, genOut, world, merged, path>>

ValidateSemVerVersion ==
    /\ pc = "validateSemVerVersion"
    /\ IF ~SemverIsValid(opts.CliVersion)
       THEN Fail("failed to validate semantic version formatting", "invalid semantic version. Expect: X.X.X (Ex.: v4.5.0)")
       ELSE pc' = "validateBinaryAvailability" /\ err' = err
    /\ UNCHANGED <<peer, opts, repo, tempDir, cmds, genOut, world, merged, faulted, path>>

\* answers of the release server: 0 stands for "no response" (network error)
HttpStatuses == {0, 200, 401, 404}
StatusOK == 200
StatusNotFound == 404

\* variant: the ancestor branch is created before the binary is downloaded
StagesBranchFirst ==
    << "checkoutAncestorBranch", "downloadKubebuilderBinary", "cleanUpAncestorBranch",
       "runAlphaGenerate", "checkoutCurrentOffAncestor", "checkoutUpgradeOffAncestor",
       "checkoutMergeOffCurrent", "mergeUpgradeIntoMerge" >>

\* the order in which Update runs its stages
UpdateStages ==
    << "downloadKubebuilderBinary", "checkoutAncestorBranch", "cleanUpAncestorBranch",
       "runAlphaGenerate", "checkoutCurrentOffAncestor", "checkoutUpgradeOffAncestor",
       "checkoutMergeOffCurrent", "mergeUpgradeIntoMerge" >>

StageIndex(stage) == CHOOSE i \in DOMAIN UpdateStages : UpdateStages[i] = stage

NextStage(stage) ==
    IF StageIndex(stage) = Len(UpdateStages) THEN "done"
    ELSE UpdateStages[StageIndex(stage) + 1]

ValidateBinaryAvailability ==
    /\ pc = "validateBinaryAvailability"
    /\ \E status \in HttpStatuses :
          LET prefix == "failed to validate binary availability"
          IN /\ cmds' = Append(cmds, [stage |-> "validateBinaryAvailability", tool |-> "http",
                                      args |-> "HEAD " \o ReleaseURL(opts.CliVersion), code |-> status])
             /\ faulted' = (faulted \/ status # StatusOK)
             /\ IF status = 0 THEN Fail(prefix, "failed to check binary availability")
                ELSE IF status = StatusOK THEN pc' = UpdateStages[1] /\ err' = err
                ELSE IF status = StatusNotFound
                THEN Fail(prefix, "binary version " \o Str(opts.CliVersion) \o " not found. Check versions available in releases")
                ELSE Fail(prefix, "unexpected response " \o ToString(status) \o " when checking binary availability for version " \o Str(opts.CliVersion))
    /\ UNCHANGED <<peer, opts, repo, tempDir, genOut, world, merged, path>>

(***************************************************************************)
(* Update (Run)                                                            *)
(***************************************************************************)
\* variant: the two stages that branch off ancestor share one prefix
SharedBranchPrefix(stage) ==
    CASE stage = "downloadKubebuilderBinary" -> "failed to download Kubebuilder " \o Str(opts.CliVersion) \o " binary"
      [] stage = "checkoutAncestorBranch" -> "failed to checkout the ancestor branch"
      [] stage = "cleanUpAncestorBranch" -> "failed to clean up the ancestor branch"
      [] stage = "runAlphaGenerate" -> "failed to run alpha generate on ancestor branch"
      [] stage \in {"checkoutCurrentOffAncestor", "checkoutUpgradeOffAncestor"} -> "failed to checkout off ancestor"
      [] stage = "checkoutMergeOffCurrent" -> "failed to checkout merge branch off current"
      [] stage = "mergeUpgradeIntoMerge" -> "failed to merge upgrade into merge branch"

\* the prefix Update wraps a stage's error with
StagePrefix(stage) ==
    CASE stage = "downloadKubebuilderBinary" -> "failed to download Kubebuilder " \o Str(opts.CliVersion) \o " binary"
      [] stage = "checkoutAncestorBranch" -> "failed to checkout the ancestor branch"
      [] stage = "cleanUpAncestorBranch" -> "failed to clean up the ancestor branch"
      [] stage = "runAlphaGenerate" -> "failed to run alpha generate on ancestor branch"
      [] stage = "checkoutCurrentOffAncestor" -> "failed to checkout current off ancestor"
      [] stage = "checkoutUpgradeOffAncestor" -> "failed to checkout upgrade off ancestor"
      [] stage = "checkoutMergeOffCurrent" -> "failed to checkout merge branch off current"
      [] stage = "mergeUpgradeIntoMerge" -> "failed to merge upgrade into merge branch"

\* variant: a stage that failed is run again
RetryFailedStage(stage, failed) == IF failed THEN stage ELSE NextStage(stage)

\* variant: Update carries on with the next stage after a failure
ContinueAfterFailure(stage, failed) == NextStage(stage)

\* where Update goes after a stage: `if err != nil { return ... }`
UpdateReturn(stage, failed) == IF failed THEN "done" ELSE NextStage(stage)

\* a stage returns: nil, or the message of its first failing step, wrapped
Conclude(stage, at, inner) ==
    /\ pc' = UpdateReturn(stage, at # 0)
    /\ err' = IF at # 0 THEN <<StagePrefix(stage), inner[at]>> ELSE err

\* how a download attempt ends: the step that failed ("ok": none) and the
\* HTTP status received (0: no response)
DownloadOutcomes ==
    {[step |-> x, status |-> 0] : x \in {"tempdir", "create", "get"}}
        \cup {[step |-> "get", status |-> h] : h \in HttpStatuses \ {0, StatusOK}}
        \cup {[step |-> x, status |-> StatusOK] : x \in {"copy", "chmod", "ok"}}

DownloadError(o) ==
    CASE o.step = "tempdir" -> "failed to create temporary directory"
      [] o.step = "create" -> "failed to create the binary file"
      [] o.step = "get" /\ o.status = 0 -> "failed to download the binary"
      [] o.step = "get" /\ o.status # 0 -> "failed to download the binary: HTTP " \o ToString(o.status)
      [] o.step = "copy" -> "failed to write the binary content to file"
      [] o.step = "chmod" -> "failed to make binary executable"

\* afero.TempDir(fs, "", "kubebuilder"+CliVersion+"-")
TempDirName(v) == "/tmp/kubebuilder" \o Str(v) \o "-1"

DownloadKubebuilderBinary ==
    /\ pc = "downloadKubebuilderBinary"
    /\ \E o \in DownloadOutcomes :
          /\ cmds' = IF o.step \in {"tempdir", "create"} THEN cmds
                     ELSE Append(cmds, [stage |-> "downloadKubebuilderBinary", tool |-> "http",
                                        args |-> "GET " \o ReleaseURL(opts.CliVersion), code |-> o.status])
          /\ tempDir' = IF o.step = "ok" THEN TempDirName(opts.CliVersion) ELSE ""
          /\ pc' = UpdateReturn("downloadKubebuilderBinary", o.step # "ok")
          /\ err' = IF o.step # "ok" THEN <<StagePrefix("downloadKubebuilderBinary"), DownloadError(o)>> ELSE err
          /\ faulted' = (faulted \/ o.step # "ok")
    /\ UNCHANGED <<peer, opts, repo, genOut, world, merged, path>>

CheckoutAncestorBranch ==
    /\ pc = "checkoutAncestorBranch"
    /\ \E f \in Faults(1, FailCodes) :
          LET s1 == Exec(Begin("checkoutAncestorBranch", repo, cmds), 1, f, "git", "checkout -b ancestor",
                         GitCheckoutNew(repo, "ancestor", ""))
          IN /\ repo' = s1.r
             /\ cmds' = s1.log
             /\ faulted' = (faulted \/ s1.fault)
             /\ Conclude("checkoutAncestorBranch", s1.at, <<"failed to create and checkout ancestor branch">>)
    /\ UNCHANGED <<peer, opts, tempDir, genOut, world, merged, path>>

CleanUpAncestorBranch ==
    /\ pc = "cleanUpAncestorBranch"
    /\ \E f \in Faults(3, FailCodes) :
          LET s1 == Exec(Begin("cleanUpAncestorBranch", repo, cmds), 1, f, "find",
                         ". -mindepth 1 -maxdepth 1 ! -name .git ! -name PROJECT -exec rm -rf {} +", FindRm(repo))
              s2 == Exec(s1, 2, f, "git", "add .", GitAddAll(s1.r))
              s3 == Exec(s2, 3, f, "git", "commit -m Clean up the ancestor branch",
                         GitCommit(s2.r, "Clean up the ancestor branch"))
          IN /\ repo' = s3.r
             /\ cmds' = s3.log
             /\ faulted' = (faulted \/ s3.fault)
             /\ Conclude("cleanUpAncestorBranch", s3.at,
                         << "failed to clean up files in ancestor branch",
                            "failed to stage changes in ancestor",
                            "failed to commit the cleanup in ancestor branch" >>)
    /\ UNCHANGED <<peer, opts, tempDir, genOut, world, merged, path>>

\* what `alpha generate` of the source version may emit: api.go may not be
\* part of that scaffold
SourceScaffolds ==
    {t \in [ScaffoldPaths -> {Absent, Pristine}] : t["main.go"] = Pristine}
\* what `alpha generate` of the target version may emit: api.go may be
\* dropped or changed in either region (region 2 the way a user may have
\* changed it), main.go may be changed in its second region
TargetScaffolds ==
    {t \in [ScaffoldPaths -> FileContents \cup {Absent}] :
        /\ t["api.go"] \in {Absent} \cup {<<a, b>> : a \in {0, MaxVal}, b \in {0, 1}}
        /\ t["main.go"] \in {Pristine, <<0, MaxVal>>}}

\* exec.LookPath("kubebuilder") under PATH p: the binary of the first
\* directory of p that holds one (the installed one, or the downloaded one
\* in the temporary directory)
RECURSIVE LookPath(_)
LookPath(p) ==
    IF p = <<>> THEN ""
    ELSE IF Head(p) \in {InstalledDir, tempDir} THEN Head(p) \o "/kubebuilder"
    ELSE LookPath(Tail(p))

\* the version of a kubebuilder binary
BinaryVersion(bin) == IF bin = tempDir \o "/kubebuilder" THEN opts.CliVersion ELSE opts.ToVersion

\* variant: PATH is left with the temporary directory in front
PathLeftModified(originalPath, tempEnvPath) == tempEnvPath

\* runAlphaGenerate's deferred os.Setenv("PATH", originalPath)
RestorePath(originalPath, tempEnvPath) == originalPath

\* a generator is deterministic: a version that has run before emits the same
GenKnown(v) == \E g \in genOut : g.v = v
GenOf(v) == (CHOOSE g \in genOut : g.v = v).out
GenChoices(v, fresh) == IF GenKnown(v) THEN {GenOf(v)} ELSE fresh
Remember(ran, v, out) == IF ran THEN genOut \cup {[v |-> v, out |-> out]} ELSE genOut

RunAlphaGenerate ==
    /\ pc = "runAlphaGenerate"
    /\ \E f \in Faults(3, FailCodes), out \in GenChoices(opts.CliVersion, SourceScaffolds) :
          LET s1 == Exec(Begin("runAlphaGenerate", repo, cmds), 1, f, tempDir \o "/kubebuilder", "alpha generate",
                         RunGenerator(repo, out))
              s2 == Exec(s1, 2, f, "git", "add .", GitAddAll(s1.r))
              s3 == Exec(s2, 3, f, "git", "commit -m Re-scaffold in ancestor",
                         GitCommit(s2.r, "Re-scaffold in ancestor"))
          IN /\ repo' = s3.r
             /\ cmds' = s3.log
             /\ faulted' = (faulted \/ s3.fault)
             /\ genOut' = Remember(s3.at # 1, opts.CliVersion, out)
             /\ path' = RestorePath(path, <<tempDir>> \o path)
             /\ Conclude("runAlphaGenerate", s3.at,
                         << "failed to run alpha generate",
                            "failed to stage changes in ancestor",
                            "failed to commit changes in ancestor" >>)
    /\ UNCHANGED <<peer, opts, tempDir, world, merged>>

CheckoutCurrentOffAncestor ==
    /\ pc = "checkoutCurrentOffAncestor"
    /\ \E f \in Faults(4, FailCodes) :
          LET s1 == Exec(Begin("checkoutCurrentOffAncestor", repo, cmds), 1, f, "git", "checkout -b current ancestor",
                         GitCheckoutNew(repo, "current", "ancestor"))
              s2 == Exec(s1, 2, f, "git", "checkout " \o opts.FromBranch \o " -- .",
                         GitCheckoutPaths(s1.r, opts.FromBranch))
              s3 == Exec(s2, 3, f, "git", "add .", GitAddAll(s2.r))
              s4 == Exec(s3, 4, f, "git", "commit -m Add content from main onto current branch",
                         GitCommit(s3.r, "Add content from main onto current branch"))
          IN /\ repo' = s4.r
             /\ cmds' = s4.log
             /\ faulted' = (faulted \/ s4.fault)
             /\ Conclude("checkoutCurrentOffAncestor", s4.at,
                         << "failed to checkout current branch off ancestor",
                            "failed to checkout content from default branch onto current",
                            "failed to stage all changes in current",
                            "failed to commit changes" >>)
    /\ UNCHANGED <<peer, opts, tempDir, genOut, world, merged, path>>

CheckoutUpgradeOffAncestor ==
    /\ pc = "checkoutUpgradeOffAncestor"
    /\ \E f \in Faults(4, FailCodes), out \in GenChoices(BinaryVersion(LookPath(path)), TargetScaffolds) :
          LET s1 == Exec(Begin("checkoutUpgradeOffAncestor", repo, cmds), 1, f, "git", "checkout -b upgrade ancestor",
                         GitCheckoutNew(repo, "upgrade", "ancestor"))
              s2 == Exec(s1, 2, f, LookPath(path), "alpha generate", RunGenerator(s1.r, out))
              s3 == Exec(s2, 3, f, "git", "add .", GitAddAll(s2.r))
              s4 == Exec(s3, 4, f, "git", "commit -m alpha generate in upgrade branch",
                         GitCommit(s3.r, "alpha generate in upgrade branch"))
          IN /\ repo' = s4.r
             /\ cmds' = s4.log
             /\ faulted' = (faulted \/ s4.fault)
             /\ genOut' = Remember(s4.at = 0 \/ s4.at > 2, BinaryVersion(LookPath(path)), out)
             /\ Conclude("checkoutUpgradeOffAncestor", s4.at,
                         << "failed to checkout upgrade branch off ancestor",
                            "failed to run alpha generate on upgrade branch",
                            "failed to stage changes on upgrade",
                            "failed to commit changes in upgrade branch" >>)
    /\ UNCHANGED <<peer, opts, tempDir, world, merged, path>>

CheckoutMergeOffCurrent ==
    /\ pc = "checkoutMergeOffCurrent"
    /\ \E f \in Faults(1, FailCodes) :
          LET s1 == Exec(Begin("checkoutMergeOffCurrent", repo, cmds), 1, f, "git", "checkout -b merge current",
                         GitCheckoutNew(repo, "merge", "current"))
          IN /\ repo' = s1.r
             /\ cmds' = s1.log
             /\ faulted' = (faulted \/ s1.fault)
             /\ Conclude("checkoutMergeOffCurrent", s1.at, <<"failed to checkout merge branch off current">>)
    /\ UNCHANGED <<peer, opts, tempDir, genOut, world, merged, path>>

\* variant: a conflicted merge is treated like any other failure
ConflictIsFatal(code) == IF code = 0 THEN "clean" ELSE "fatal"
\* variant: every non-zero exit code of the merge is read as a conflict
AnyFailureIsConflict(code) == IF code = 0 THEN "clean" ELSE "conflict"

\* mergeUpgradeIntoMerge's reading of the exit code of `git merge`
MergeOutcome(code) ==
    IF code = 0 THEN "clean"
    ELSE IF code = 1 THEN "conflict"
    ELSE "fatal"

\* variant: the forced commit carries the message git proposes for a merge
GitProposedMessage(from, to) == DefaultMergeMsg("upgrade", "merge")

\* the commit message naming both versions
MergeMessage(from, to) == "Merge from " \o Str(from) \o " to " \o Str(to)

\* what follows a merge result that is committed: the squash, when asked for
AfterMergeCommitted == IF opts.Squash THEN "squashToOutputBranch" ELSE "done"

\* what follows the merge: with the force flag a conflicted result is staged
\* and committed, otherwise the command is over
AfterMerge(outcome) ==
    IF outcome = "conflict" THEN (IF opts.Force THEN "forceCommit" ELSE "done")
    ELSE AfterMergeCommitted

MergeUpgradeIntoMerge ==
    /\ pc = "mergeUpgradeIntoMerge"
    /\ \E f \in Faults(1, MergeFailCodes) :
          LET s1 == Exec(Begin("mergeUpgradeIntoMerge", repo, cmds), 1, f, "git", "merge upgrade",
                         GitMerge(repo, "upgrade"))
              outcome == MergeOutcome(s1.code)
          IN /\ repo' = s1.r
             /\ cmds' = s1.log
             /\ faulted' = (faulted \/ s1.fault)
             /\ merged' = outcome
             /\ IF outcome = "fatal"
                THEN Conclude("mergeUpgradeIntoMerge", 1, <<"failed to merge the upgrade branch into the merge branch">>)
                ELSE pc' = AfterMerge(outcome) /\ err' = err
    /\ UNCHANGED <<peer, opts, tempDir, genOut, world, path>>

ForceCommit ==
    /\ pc = "forceCommit"
    /\ \E f \in Faults(2, FailCodes) :
          LET msg == MergeMessage(opts.CliVersion, opts.ToVersion)
              s1 == Exec(Begin("mergeUpgradeIntoMerge", repo, cmds), 1, f, "git", "add --all", GitAddAll(repo))
              s2 == Exec(s1, 2, f, "git", "commit -m " \o msg, GitCommit(s1.r, msg))
          IN /\ repo' = s2.r
             /\ cmds' = s2.log
             /\ faulted' = (faulted \/ s2.fault)
             /\ pc' = IF s2.at # 0 THEN "done" ELSE AfterMergeCommitted
             /\ err' = IF s2.at # 0
                       THEN <<StagePrefix("mergeUpgradeIntoMerge"),
                              <<"failed to stage merge results", "failed to commit merge">>[s2.at]>>
                       ELSE err
    /\ UNCHANGED <<peer, opts, tempDir, genOut, world, merged, path>>

(***************************************************************************)
(* Squash: one commit with the merge result on the output branch           *)
(***************************************************************************)
\* variant: the override of the branch name is ignored
OutputAlwaysDefault(outputBranch, toVersion) == DefaultOutputPrefix \o Str(toVersion)

\* the name of the squashed branch
OutputBranchName(outputBranch, toVersion) ==
    IF outputBranch # "" THEN outputBranch ELSE DefaultOutputPrefix \o Str(toVersion)

\* the message of the squashed commit when none is given
DefaultSquashMessage(from, to) ==
    "[kubebuilder-automated-update]: update scaffold from " \o Str(from) \o " to " \o Str(to)
        \o "; (squashed 3-way merge)"

\* variant: the given message is appended to the default one
MessageAfterDefault(commitMessage, from, to) == DefaultSquashMessage(from, to) \o commitMessage

\* the message of the squashed commit
SquashMessage(commitMessage, from, to) ==
    IF commitMessage # "" THEN commitMessage ELSE DefaultSquashMessage(from, to)

\* git has nothing to commit: the index is what HEAD holds
NothingToCommit(r) == r.index = HeadTree(r) /\ r.mergeHead = NoCommit /\ ~r.unmerged

\* variant: every failure of the commit is an error
AnyCommitFailureFatal(r, code) == CmdFailed(code)

\* the commit of the squash failed for a reason other than nothing to commit
CommitStepFailed(r, code) == CmdFailed(code) /\ ~(code = 1 /\ NothingToCommit(r))

\* the restores of the preserved paths, in the order given: commands number
\* k, k + 1, ... of the stage
RECURSIVE RestorePreserved(_, _, _, _)
RestorePreserved(st, k, fault, entries) ==
    IF entries = <<>> THEN [st |-> st, k |-> k]
    ELSE LET file == TrimSpace(Head(entries))
         IN IF file = <<>> THEN RestorePreserved(st, k, fault, Tail(entries))
            ELSE RestorePreserved(
                     Exec(st, k, fault, "git",
                          "restore --source " \o opts.FromBranch \o " --staged --worktree " \o Str(file),
                          GitRestore(st.r, opts.FromBranch, Str(file))),
                     k + 1, fault, Tail(entries))

\* how many times the squash may be run on one merge result
MaxSquashRuns == 2
\* the squashes started so far
IsSquashStart(c) == c.stage = "squashToOutputBranch" /\ c.args = "checkout " \o opts.FromBranch
SquashRuns == Cardinality({i \in DOMAIN cmds : IsSquashStart(cmds[i])})
\* the most entries a list of preserved paths has
MaxPreserved == 4

SquashErrors(n) ==
    [i \in 1 .. (n + 6) |->
        IF i = 1 THEN "failed to checkout the base branch"
        ELSE IF i = 2 THEN "failed to create or reset the output branch"
        ELSE IF i = 3 THEN "failed to clean the output branch"
        ELSE IF i = 4 THEN "failed to checkout the merge result"
        ELSE IF i <= n + 4 THEN "failed to restore a preserved path"
        ELSE IF i = n + 5 THEN "failed to stage the squashed result"
        ELSE "failed to commit the squashed result"]

\* squashToOutputBranch, run by Update after the merge, or run again on the
\* unchanged merge branch after a run that succeeded
SquashToOutputBranch ==
    /\ \/ pc = "squashToOutputBranch"
       \/ pc = "done" /\ err = <<>> /\ SquashRuns \in 1 .. (MaxSquashRuns - 1)
    /\ \E f \in Faults(MaxPreserved + 6, FailCodes) :
       \E out \in {OutputBranchName(opts.OutputBranch, opts.ToVersion)},
          msg \in {SquashMessage(opts.CommitMessage, opts.CliVersion, opts.ToVersion)} :
       \E s1 \in {Exec(Begin("squashToOutputBranch", repo, cmds), 1, f, "git", "checkout " \o opts.FromBranch,
                       GitCheckout(repo, opts.FromBranch))} :
       \E s2 \in {Exec(s1, 2, f, "git", "checkout -B " \o out \o " " \o opts.FromBranch,
                       GitCheckoutReset(s1.r, out, opts.FromBranch))} :
       \E s3 \in {Exec(s2, 3, f, "sh", "-c find . -mindepth 1 -maxdepth 1 ! -name '.git' -exec rm -rf {} +",
                       FindRmAll(s2.r))} :
       \E s4 \in {Exec(s3, 4, f, "git", "checkout merge -- .", GitCheckoutPaths(s3.r, "merge"))} :
       \E s5 \in {RestorePreserved(s4, 5, f, opts.PreservePath)} :
       \E s6 \in {Exec(s5.st, s5.k, f, "git", "add --all", GitAddAll(s5.st.r))} :
       \E s7 \in {Exec(s6, s5.k + 1, f, "git", "commit --no-verify -m " \o msg, GitCommit(s6.r, msg))} :
          LET failed == s7.at # 0 /\ (s7.at # s5.k + 1 \/ CommitStepFailed(s6.r, s7.code))
          IN /\ f.at <= s5.k + 1
             /\ repo' = s7.r
             /\ cmds' = s7.log
             /\ faulted' = (faulted \/ s7.fault)
             /\ pc' = IF ~failed /\ pc = "squashToOutputBranch" /\ (opts.OpenPR \/ opts.OpenIssue)
                      THEN "openGitHub" ELSE "done"
             /\ err' = IF failed
                       THEN <<"failed to squash to output branch", SquashErrors(s5.k - 5)[s7.at]>>
                       ELSE err
    /\ UNCHANGED <<peer, opts, tempDir, genOut, world, merged, path>>

(***************************************************************************)
(* Platform integration: pull request, issue                               *)
(***************************************************************************)
\* how a run of gh may end
GhExitCodes == {0, 1}
GhCmd(args, code) == [stage |-> "openGitHub", tool |-> "gh", args |-> args, code |-> code]

\* variant: gh is taken to be there whatever the probe says
GhAssumedAvailable(code) == TRUE

\* gh --version succeeded
GhAvailable(code) == ~CmdFailed(code)

\* variant: the issue is opened whenever it is asked for
IssueAlways(openPR, openIssue, prFailed) == openIssue

\* an issue is opened on its own, or in place of a pull request that failed
IssueWanted(openPR, openIssue, prFailed) == openIssue /\ (~openPR \/ prFailed)

OpenGitHub ==
    /\ pc = "openGitHub"
    /\ \E probe \in GhExitCodes, pr \in GhExitCodes, issue \in GhExitCodes :
          LET out == OutputBranchName(opts.OutputBranch, opts.ToVersion)
              log1 == Append(cmds, GhCmd("--version", probe))
              available == GhAvailable(probe)
              prRan == available /\ opts.OpenPR
              log2 == IF prRan
                      THEN Append(log1, GhCmd("pr create --base " \o opts.FromBranch \o " --head " \o out, pr))
                      ELSE log1
              prFailed == prRan /\ CmdFailed(pr)
              issueRan == available /\ IssueWanted(opts.OpenPR, opts.OpenIssue, prFailed)
              log3 == IF issueRan THEN Append(log2, GhCmd("issue create", issue)) ELSE log2
              problem == IF ~available THEN "gh CLI not found"
                         ELSE IF issueRan THEN (IF CmdFailed(issue) THEN "failed to create issue" ELSE "")
                         ELSE IF prFailed THEN "failed to create pull request"
                         ELSE ""
          IN /\ ~prRan => pr = 0
             /\ ~issueRan => issue = 0
             /\ cmds' = log3
             /\ faulted' = (faulted \/ CmdFailed(probe) \/ CmdFailed(pr) \/ CmdFailed(issue))
             /\ err' = IF problem # "" THEN <<"failed to open GitHub pull request or issue", problem>> ELSE err
             /\ pc' = "done"
    /\ UNCHANGED <<peer, opts, repo, tempDir, genOut, world, merged, path>>

Next ==
    \/ ValidateGitRepo
    \/ ValidateFromBranch
    \/ LoadConfigFile
    \/ ValidateSemVerVersion
    \/ ValidateBinaryAvailability
    \/ DownloadKubebuilderBinary
    \/ CheckoutAncestorBranch
    \/ CleanUpAncestorBranch
    \/ RunAlphaGenerate
    \/ CheckoutCurrentOffAncestor
    \/ CheckoutUpgradeOffAncestor
    \/ CheckoutMergeOffCurrent
    \/ MergeUpgradeIntoMerge
    \/ ForceCommit

Spec == Init /\ [][Next]_vars

(***************************************************************************)
(* Runs with --squash: a clean repository with valid flags, the flags of   *)
(* the squash and of the platform integration, and possibly the output     *)
(* branch of an earlier run                                                *)
(***************************************************************************)
\* lists of --preserve-path: none; a padded entry, an empty one and a plain
\* one; every path, with a blank entry among them
PreservePathLists ==
    { <<>>,
      << <<" ", "api.go", " ">>, <<>>, <<PROJECT>> >>,
      << <<PROJECT>>, <<" ", "\t">>, <<"api.go">>, <<"main.go">> >> }
MultiLineMessage == "feat: upgrade scaffold\n\nThis update includes:\n- New project structure"
CommitMessages == {"", MultiLineMessage}
\* what the user's base branch holds in the runs with --squash: api.go
\* missing or edited in one region, main.go edited
SquashUserTrees ==
    {t \in [ScaffoldPaths -> FileContents \cup {Absent}] :
        /\ t["api.go"] \in {Absent, <<0, 1>>, <<1, 0>>}
        /\ t["main.go"] = <<1, 0>>}
\* what the two generators emit in the runs with --squash: the target
\* version changes the first region of api.go and the second of main.go
SquashGenerators ==
    { [v |-> V450, out |-> [p \in ScaffoldPaths |-> Pristine]],
      [v |-> V460, out |-> [p \in ScaffoldPaths |-> IF p = "api.go" THEN <<MaxVal, 0>> ELSE <<0, MaxVal>>]] }
\* the squashed commit an earlier run left on the output branch
EarlierSquash == [parents |-> <<1>>,
                  tree |-> [p \in Paths |-> IF p = PROJECT THEN MainProject ELSE <<MaxVal, MaxVal>>],
                  msg |-> "earlier squash"]

SquashInit ==
    /\ \E force \in BOOLEAN, pp \in PreservePathLists, ob \in {"", CustomOutputBranch},
          cm \in CommitMessages, pr \in BOOLEAN, issue \in BOOLEAN :
          opts = [FromVersion |-> <<>>, FromBranch |-> "", CliVersion |-> <<>>,
                  Force |-> force, ToVersion |-> V460,
                  Squash |-> TRUE, PreservePath |-> pp, OutputBranch |-> ob, CommitMessage |-> cm,
                  OpenPR |-> pr, OpenIssue |-> issue]
    /\ \E user \in SquashUserTrees, earlier \in BOOLEAN :
          LET r == InitRepo(MainProject, user, "main", FALSE)
              out == OutputBranchName(opts.OutputBranch, opts.ToVersion)
          IN /\ repo = IF earlier
                       THEN [r EXCEPT !.commits = Append(@, EarlierSquash), !.branches[out] = Len(r.commits) + 1]
                       ELSE r
             /\ world = [repo0 |-> repo, opts0 |-> opts, inRepo |-> TRUE, projCli |-> V450,
                         path0 |-> <<InstalledDir>>]
    /\ pc = "validateGitRepo"
    /\ err = <<>>
    /\ tempDir = ""
    /\ cmds = <<>>
    /\ genOut = SquashGenerators
    /\ merged = "none"
    /\ faulted = FALSE
    /\ path = <<InstalledDir>>
    /\ peer = NoPeer

SquashNext ==
    \/ Next
    \/ SquashToOutputBranch
    \/ OpenGitHub

SquashSpec == SquashInit /\ [][SquashNext]_vars

(***************************************************************************)
(* Two runs of the command against the same repository.  Each is its own   *)
(* process, with its own flags, error, log, temporary directory and PATH;  *)
(* the repository is shared and nothing keeps the runs apart: after any    *)
(* stage of one run the other may act.                                     *)
(***************************************************************************)
\* what is private to a run
ActiveRun == [opts |-> opts, pc |-> pc, err |-> err, tempDir |-> tempDir, cmds |-> cmds,
              merged |-> merged, faulted |-> faulted, path |-> path]

ConcurrentInit ==
    /\ \E force \in BOOLEAN :
          opts = [FromVersion |-> <<>>, FromBranch |-> "", CliVersion |-> <<>>,
                  Force |-> force, ToVersion |-> V460] @@ NoSquash
    /\ \E user \in SquashUserTrees :
          /\ repo = InitRepo(MainProject, user, "main", FALSE)
          /\ world = [repo0 |-> repo, opts0 |-> opts, inRepo |-> TRUE, projCli |-> V450,
                      path0 |-> <<InstalledDir>>]
    /\ pc = "validateGitRepo"
    /\ err = <<>>
    /\ tempDir = ""
    /\ cmds = <<>>
    /\ genOut = SquashGenerators
    /\ merged = "none"
    /\ faulted = FALSE
    /\ path = <<InstalledDir>>
    /\ peer = ActiveRun

\* the scheduler lets the other run act
OtherRunActs ==
    /\ peer.pc \notin {"none", "done"}
    /\ peer' = ActiveRun
    /\ opts' = peer.opts
    /\ pc' = peer.pc
    /\ err' = peer.err
    /\ tempDir' = peer.tempDir
    /\ cmds' = peer.cmds
    /\ merged' = peer.merged
    /\ faulted' = peer.faulted
    /\ path' = peer.path
    /\ UNCHANGED <<repo, genOut, world>>

ConcurrentNext ==
    \/ Next
    \/ OtherRunActs

ConcurrentSpec == ConcurrentInit /\ [][ConcurrentNext]_vars

(***************************************************************************)
(* Properties                                                              *)
(***************************************************************************)
StageSet == {UpdateStages[i] : i \in DOMAIN UpdateStages}
LastCmd == cmds[Len(cmds)]
Returned == pc = "done"
\* the invocation of `git merge`, when it has been made
IsMergeCmd(c) == c.stage = "mergeUpgradeIntoMerge" /\ c.tool = "git" /\ c.args = "merge upgrade"
MergeRan == \E i \in DOMAIN cmds : IsMergeCmd(cmds[i])
MergeCode == (CHOOSE c \in {cmds[i] : i \in DOMAIN cmds} : IsMergeCmd(c)).code
IsDownloadCmd(c) == c.stage = "downloadKubebuilderBinary" /\ c.tool = "http"
BranchTree(b) == TreeOf(repo, repo.branches[b])
\* the regions in which a three-way merge of the three branches conflicts
ConflictRegions ==
    {<<p, i>> \in Paths \X (1 .. 2) :
        LET b == BranchTree("ancestor")[p]
            o == BranchTree("current")[p]
            t == BranchTree("upgrade")[p]
        IN /\ i \in DOMAIN b /\ i \in DOMAIN o /\ i \in DOMAIN t
           /\ o[i] # b[i] /\ t[i] # b[i] /\ o[i] # t[i]}

ConflictLeftForTheUser ==
    (MergeRan /\ MergeCode = 1 /\ ~opts.Force)
       => /\ Returned
          /\ err = <<>>
          /\ IsMergeCmd(LastCmd)
          /\ repo.head = "merge"
          /\ repo.branches["merge"] = repo.branches["current"]
          /\ repo.commits[Len(repo.commits)].msg = "alpha generate in upgrade branch"
          /\ repo.unmerged
          /\ \A x \in ConflictRegions : repo.wt[x[1]][x[2]] = Marker

ConflictWithMarkersLeft ==
    /\ MergeRan /\ MergeCode = 1 /\ ~opts.Force
    /\ Returned /\ err = <<>>
    /\ ConflictRegions # {}
    /\ HasConflictMarkers(repo.wt)
    /\ ~HasConflictMarkers(BranchTree("merge"))

\* C3: when `git merge upgrade` ends with exit code 1, the force flag is on
\* and the run returns nil, exactly one commit was added on merge: its
\* parents are the heads of current and upgrade, its tree is the conflicted
\* result with the markers, and its message is
\* "Merge from <source> to <target>"; it is the last commit of the branch.
ForcedCommitOnConflict ==
    (MergeRan /\ MergeCode = 1 /\ opts.Force /\ Returned /\ err = <<>>)
       => LET c == repo.commits[repo.branches["merge"]]
          IN /\ repo.head = "merge"
             /\ repo.branches["merge"] = Len(repo.commits)
             /\ c.parents = <<repo.branches["current"], repo.branches["upgrade"]>>
             /\ c.msg = "Merge from " \o Str(opts.CliVersion) \o " to " \o Str(opts.ToVersion)
             /\ c.tree = repo.wt
             /\ \A x \in ConflictRegions : c.tree[x[1]][x[2]] = Marker
             /\ ~repo.unmerged

ForcedCommitHoldsMarkers ==
    /\ MergeRan /\ MergeCode = 1 /\ opts.Force /\ Returned /\ err = <<>>
    /\ HasConflictMarkers(BranchTree("merge"))
    /\ repo.commits[repo.branches["merge"]].msg = "Merge from v4.5.0 to v4.6.0"

CleanMergeCommittedByEngine ==
    (MergeRan /\ MergeCode = 0 /\ Returned /\ err = <<>>)
       => /\ repo.commits[repo.branches["merge"]].msg
                = "Merge from " \o Str(opts.CliVersion) \o " to " \o Str(opts.ToVersion)
          /\ ~IsMergeCmd(LastCmd)
          /\ LastCmd.tool = "git"

\* the tree `alpha generate` of the source version left on ancestor
SourceScaffoldCommitted ==
    /\ BranchExists(repo, "ancestor")
    /\ repo.commits[repo.branches["ancestor"]].msg = "Re-scaffold in ancestor"

\* C6: when the base branch holds exactly the scaffold of the source version
\* and no tool breaks, a run without the force flag returns nil after a
\* clean merge, and merge ends with a "Merge from X to Y" commit and no
\* conflict markers.
UnmodifiedProjectUpdates ==
    (/\ Returned /\ ~opts.Force /\ ~faulted
     /\ SourceScaffoldCommitted
     /\ BranchTree(opts.FromBranch) = BranchTree("ancestor"))
       => /\ err = <<>>
          /\ MergeRan /\ MergeCode = 0
          /\ ~HasConflictMarkers(BranchTree("merge"))
          /\ repo.commits[repo.branches["merge"]].msg
                = "Merge from " \o Str(opts.CliVersion) \o " to " \o Str(opts.ToVersion)

\* C7: after a run with default flags that returns nil, for every scaffold
\* file and region: what the user changed and the target scaffold left alone
\* holds the user's content, what only the target scaffold changed holds the
\* target's content, and the merge conflicts only if both changed one region
\* differently.
UserCodeCarriedForward ==
    (Returned /\ err = <<>> /\ ~opts.Force /\ ~faulted /\ MergeRan)
       => LET S == GenOf(opts.CliVersion)
              T == GenOf(opts.ToVersion)
              U == BranchTree(opts.FromBranch)
              R == IF MergeCode = 0 THEN BranchTree("merge") ELSE repo.wt
          IN /\ \A p \in ScaffoldPaths :
                   /\ (U[p] # S[p] /\ T[p] = S[p]) => R[p] = U[p]
                   /\ (U[p] = S[p] /\ T[p] # S[p]) => R[p] = T[p]
                   /\ (U[p] # Absent /\ S[p] # Absent /\ T[p] # Absent)
                         => \A i \in DOMAIN S[p] :
                               /\ (U[p][i] # S[p][i] /\ T[p][i] = S[p][i]) => R[p][i] = U[p][i]
                               /\ (U[p][i] = S[p][i] /\ T[p][i] # S[p][i]) => R[p][i] = T[p][i]
             /\ MergeCode = 1 => ConflictRegions # {}

ValidatePrefixes ==
    { "failed to validate git repository", "failed to validate --from-branch",
      "failed to load the PROJECT file", "failed to validate semantic version formatting",
      "failed to validate binary availability" }

\* C10: when the source version is malformed ("4.x" given, or "4.5.0" without
\* the "v" read from PROJECT), PROJECT is missing from the working directory,
\* or the base branch does not exist, Update never starts: no stage of Update
\* is entered or runs a command, nothing is downloaded, the repository is the
\* one the run started with, and the run ends with a Validate error.
ConfigErrorsBeforeMutation ==
    LET malformed == \/ world.opts0.FromVersion = <<"4", ".", "x">>
                     \/ world.opts0.FromVersion = <<>> /\ world.projCli = <<"4", ".", "5", ".", "0">>
        noProject == world.repo0.wt[PROJECT] = Absent
        noBase == ~BranchExists(world.repo0, DefaultFromBranch(world.opts0.FromBranch))
    IN (malformed \/ noProject \/ noBase)
          => /\ pc \notin StageSet \cup {"forceCommit"}
             /\ \A i \in DOMAIN cmds : cmds[i].stage \notin StageSet
             /\ tempDir = ""
             /\ repo = world.repo0
             /\ Returned => (err # <<>> /\ err[1] \in ValidatePrefixes)

MalformedVersionRejected ==
    /\ Returned
    /\ world.opts0.FromVersion = <<"4", ".", "x">>
    /\ err = << "failed to validate semantic version formatting",
                "invalid semantic version. Expect: X.X.X (Ex.: v4.5.0)" >>
    /\ repo = world.repo0

\* the source version of the run is malformed: "4.x" given, or "4.5.0"
\* without the "v" read from PROJECT
MalformedSourceVersion ==
    \/ world.opts0.FromVersion = <<"4", ".", "x">>
    \/ world.opts0.FromVersion = <<>> /\ world.projCli = <<"4", ".", "5", ".", "0">>

ReadOnlyQueries ==
    { "rev-parse --git-dir", "status --porcelain",
      "rev-parse --verify main", "rev-parse --verify dev", "rev-parse --verify gone" }

\* C11 (as stated): when the error for a malformed source version is
\* returned, no HTTP request and no version-control command at all, not even
\* a query, has been issued.
MalformedVersionBeforeAnyCommand ==
    (Returned /\ err # <<>> /\ err[1] = "failed to validate semantic version formatting")
       => cmds = <<>>

\* C11 (amended): in a run with a malformed source version no HTTP request
\* is ever issued and the repository is never changed; the commands issued
\* are the read-only queries of validateGitRepo and validateFromBranch, and
\* the run ends with an error of Validate.
MalformedVersionBeforeNetworkAndChange ==
    MalformedSourceVersion
       => /\ \A i \in DOMAIN cmds :
                /\ cmds[i].tool = "git"
                /\ cmds[i].stage \in {"validateGitRepo", "validateFromBranch"}
                /\ cmds[i].args \in ReadOnlyQueries
          /\ repo = world.repo0
          /\ tempDir = ""
          /\ Returned => (err # <<>> /\ err[1] \in ValidatePrefixes)

MalformedVersionAfterQueries ==
    /\ MalformedSourceVersion
    /\ Returned
    /\ err[1] = "failed to validate semantic version formatting"
    /\ Len(cmds) = 3
    /\ cmds[3].args = "rev-parse --verify main"

\* the PROJECT file has been loaded and the source version defined
VersionDefined ==
    /\ pc \notin {"validateGitRepo", "validateFromBranch", "loadConfigFile"}
    /\ err # <<>> => err[1] \notin { "failed to validate git repository",
                                    "failed to validate --from-branch",
                                    "failed to load the PROJECT file" }

\* the source version the flags and the PROJECT file call for
ExpectedSourceVersion ==
    LET f == world.opts0.FromVersion
    IN IF f = <<>> THEN world.projCli
       ELSE IF f[1] = "v" THEN f
       ELSE <<"v">> \o f

\* C12: once defined, the source version is the override with "v" prepended
\* exactly when it lacks one ("4.6.0" and "v4.6.0" both give "v4.6.0"), or
\* the version of the PROJECT file when there is no override; defining it
\* again changes nothing; and the availability check and the download
\* request the URL of exactly that version.
SourceVersionResolved ==
    VersionDefined
       => /\ opts.CliVersion = ExpectedSourceVersion
          /\ world.opts0.FromVersion # <<>> => opts.FromVersion = opts.CliVersion
          /\ world.opts0.FromVersion \in {<<"4", ".", "6", ".", "0">>, <<"v", "4", ".", "6", ".", "0">>}
                => Str(opts.CliVersion) = "v4.6.0"
          /\ DefineFromVersion(opts.FromVersion, opts.CliVersion)
                = [FromVersion |-> opts.FromVersion, CliVersion |-> opts.CliVersion]
          /\ \A i \in DOMAIN cmds :
                cmds[i].tool = "http"
                   => cmds[i].args
                         = (IF cmds[i].stage = "validateBinaryAvailability" THEN "HEAD " ELSE "GET ")
                           \o "https://github.com/kubernetes-sigs/kubebuilder/releases/download/"
                           \o Str(ExpectedSourceVersion) \o "/kubebuilder_os_arch"

UnprefixedOverrideDownloaded ==
    /\ world.opts0.FromVersion = <<"4", ".", "6", ".", "0">>
    /\ \E i \in DOMAIN cmds :
          cmds[i].args = "GET https://github.com/kubernetes-sigs/kubebuilder/releases/download/v4.6.0/kubebuilder_os_arch"

\* validateFromBranch has run
BaseBranchDefined ==
    /\ pc \notin {"validateGitRepo", "validateFromBranch"}
    /\ err # <<>> => err[1] # "failed to validate git repository"

\* the commands that name the base branch
NamesBaseBranch(c) ==
    \/ c.stage = "validateFromBranch"
    \/ c.stage = "checkoutCurrentOffAncestor" /\ c.args \notin {"checkout -b current ancestor", "add ."}
                                              /\ c.args # "commit -m Add content from main onto current branch"

\* C13 (as stated): with no --from-branch the base branch is the branch that
\* is checked out when the command starts; a given name is used unchanged.
BaseBranchDefaultsToCheckedOut ==
    BaseBranchDefined
       => opts.FromBranch = (IF world.opts0.FromBranch = "" THEN world.repo0.head
                             ELSE world.opts0.FromBranch)

\* C13 (amended): with no --from-branch the base branch is "main", whichever
\* branch is checked out; a given name is used unchanged; the commands that
\* name the base branch (the existence check and the overlay onto current)
\* name that one.
BaseBranchDefaultsToMain ==
    BaseBranchDefined
       => LET base == IF world.opts0.FromBranch = "" THEN "main" ELSE world.opts0.FromBranch
          IN /\ opts.FromBranch = base
             /\ \A i \in DOMAIN cmds :
                   NamesBaseBranch(cmds[i])
                      => cmds[i].args \in {"rev-parse --verify " \o base, "checkout " \o base \o " -- ."}

MainOverlaidWhileOnDev ==
    /\ world.opts0.FromBranch = ""
    /\ world.repo0.head = "dev"
    /\ \E i \in DOMAIN cmds : cmds[i].args = "checkout main -- ." /\ cmds[i].code = 0

UpdateStarted ==
    \/ pc \in StageSet \cup {"forceCommit"}
    \/ tempDir # ""
    \/ \E i \in DOMAIN cmds : cmds[i].stage \in StageSet

\* C14: when the command is run outside a git repository, or with
\* uncommitted changes in the working tree, Validate returns the
\* "failed to validate git repository" error after validateGitRepo and
\* Update is never started; so Update starts only inside a repository whose
\* working tree is clean.
DirtyOrNoRepositoryRejected ==
    /\ (~world.inRepo \/ ~IsClean(world.repo0))
          => /\ pc \in {"validateGitRepo", "done"}
             /\ ~UpdateStarted
             /\ repo = world.repo0
             /\ \A i \in DOMAIN cmds : cmds[i].stage = "validateGitRepo"
             /\ Returned => (err # <<>> /\ err[1] = "failed to validate git repository")
    /\ UpdateStarted => (world.inRepo /\ IsClean(world.repo0))
    /\ pc = "downloadKubebuilderBinary" => IsClean(repo)

UncommittedChangesRejected ==
    /\ world.inRepo
    /\ world.repo0.wt # world.repo0.index
    /\ Returned
    /\ err = << "failed to validate git repository",
                "working directory has uncommitted changes. Please commit or stash them before updating" >>
    /\ Len(cmds) = 2

\* the clean-up commit of ancestor, once made: the first commit after those
\* the repository started with
CleanUpCommit == repo.commits[Len(world.repo0.commits) + 1]
CleanUpCommitted == Len(repo.commits) > Len(world.repo0.commits)

\* C15: the clean-up commit holds the descriptor and nothing else, and the
\* re-scaffold commit that ancestor ends with, made on top of it, holds the
\* descriptor and, for every other path, exactly what the generator of the
\* source version wrote: nothing of the user's files or edits.
AncestorIsPureScaffold ==
    /\ CleanUpCommitted
          => /\ CleanUpCommit.msg = "Clean up the ancestor branch"
             /\ CleanUpCommit.tree = [p \in Paths |-> IF p = PROJECT THEN world.repo0.wt[PROJECT] ELSE Absent]
    /\ SourceScaffoldCommitted
          => LET c == repo.commits[repo.branches["ancestor"]]
             IN /\ c.parents = <<Len(world.repo0.commits) + 1>>
                /\ c.tree[PROJECT] = world.repo0.wt[PROJECT]
                /\ \A p \in ScaffoldPaths : c.tree[p] = GenOf(opts.CliVersion)[p]

UserOnlyFileNotOnAncestor ==
    /\ SourceScaffoldCommitted
    /\ world.repo0.wt["api.go"] = <<1, 1>>
    /\ GenOf(opts.CliVersion)["api.go"] = Absent
    /\ BranchTree("ancestor")["api.go"] = Absent
    /\ BranchTree("ancestor")["main.go"] = Pristine

\* the head of the base branch when the command started
BaseHead0 == world.repo0.branches[opts.FromBranch]

\* C16: ancestor is created from the head of the configured base branch: the
\* first commit made on ancestor has the base branch's head as its parent and
\* keeps the base branch's descriptor, whichever branch was checked out when
\* Update started.
AncestorFromBaseBranch ==
    CleanUpCommitted
       => /\ CleanUpCommit.parents = <<BaseHead0>>
          /\ CleanUpCommit.tree[PROJECT] = TreeOf(world.repo0, BaseHead0)[PROJECT]

\* the commit that ends the current-branch builder has been made
CurrentCommitted ==
    /\ BranchExists(repo, "current")
    /\ repo.commits[repo.branches["current"]].msg = "Add content from main onto current branch"

\* C17: once the current-branch builder has committed, the head of current is
\* one commit whose only parent is the head of ancestor, and every file of
\* the configured base branch is in its tree with the base branch's content.
CurrentOverlaysBaseBranch ==
    CurrentCommitted
       => LET c == repo.commits[repo.branches["current"]]
              base == BranchTree(opts.FromBranch)
          IN /\ c.parents = <<repo.branches["ancestor"]>>
             /\ \A p \in Paths : base[p] # Absent => c.tree[p] = base[p]

UserFileOverlaidOnCurrent ==
    /\ CurrentCommitted
    /\ BranchTree(opts.FromBranch)["api.go"] = <<1, 1>>
    /\ BranchTree("ancestor")["api.go"] # <<1, 1>>
    /\ BranchTree("current")["api.go"] = <<1, 1>>

\* the commit that ends the upgrade-branch builder has been made
UpgradeCommitted ==
    /\ BranchExists(repo, "upgrade")
    /\ repo.commits[repo.branches["upgrade"]].msg = "alpha generate in upgrade branch"

\* C18: upgrade is created from ancestor, no clean-up command is run on it,
\* and once its commit is made its tree is the descriptor plus exactly what
\* the generator of the target version wrote: a file that only the generator
\* of the source version writes is not in it.
UpgradeIsTargetScaffold ==
    UpgradeCommitted
       => LET c == repo.commits[repo.branches["upgrade"]]
          IN /\ c.parents = <<repo.branches["ancestor"]>>
             /\ \A i \in DOMAIN cmds : cmds[i].stage = "checkoutUpgradeOffAncestor" => cmds[i].tool # "find"
             /\ c.tree[PROJECT] = BranchTree("ancestor")[PROJECT]
             /\ \A p \in ScaffoldPaths : c.tree[p] = GenOf(opts.ToVersion)[p]

\* the invocations of the generator
IsGenerateCmd(c, stage) == c.stage = stage /\ c.args = "alpha generate"
DownloadedBinary == tempDir \o "/kubebuilder"

SameVersionUpgradeIsIdentity ==
    (/\ Returned /\ ~faulted
     /\ opts.CliVersion = opts.ToVersion
     /\ BranchExists(repo, "upgrade"))
       => /\ BranchTree("upgrade") = BranchTree("ancestor")
          /\ err = <<>>

\* the merge attempt has just been made and no tool broke
MergeJustAttempted ==
    /\ cmds # <<>>
    /\ ~faulted
    /\ IsMergeCmd(LastCmd)
    /\ LastCmd.code \in {0, 1}

\* C21: merge is created from current and upgrade is what is merged into it,
\* with git's own commit of the merge disabled: right after the merge command
\* HEAD is merge, merge still points at current's head (git made no commit),
\* and when the merge is clean the result is staged with upgrade as the
\* pending side of the merge.
MergeOfUpgradeWithoutAutoCommit ==
    MergeJustAttempted
       => /\ repo.head = "merge"
          /\ \E i \in DOMAIN cmds : /\ cmds[i].stage = "checkoutMergeOffCurrent"
                                    /\ cmds[i].args = "checkout -b merge current"
                                    /\ cmds[i].code = 0
          /\ repo.branches["merge"] = repo.branches["current"]
          /\ repo.mergeHead = repo.branches["upgrade"]

\* an external invocation that did not do what it was run for: an HTTP
\* answer other than 200, a merge that ended neither clean nor in conflict,
\* any other command with a non-zero exit code
AttemptFailed(c) ==
    IF c.tool = "http" THEN c.code # StatusOK
    ELSE IF IsMergeCmd(c) THEN c.code \notin {0, 1}
    ELSE c.code # 0
SameStep(c, d) == c.stage = d.stage /\ c.tool = d.tool /\ c.args = d.args

WorkingBranches == {"ancestor", "current", "upgrade"}

MergeSides == {"current", "upgrade"}
\* the commit runAlphaGenerate makes on ancestor: it is made after the
\* commits the repository started with and after the clean-up commit
IsRescaffoldCommit(c) ==
    /\ c > Len(world.repo0.commits) + 1
    /\ repo.commits[c].msg = "Re-scaffold in ancestor"
    /\ repo.commits[c].parents = <<Len(world.repo0.commits) + 1>>

\* C33: whenever current or upgrade exists, ancestor's head is the
\* re-scaffold commit and the branch was created at it (it points at it or
\* at a commit whose only parent it is); so once the merge is attempted the
\* merge base of current and upgrade is the re-scaffold commit, not a commit
\* of the base branch and not the clean-up commit.
MergeBaseIsRescaffoldCommit ==
    /\ \A b \in MergeSides :
          BranchExists(repo, b)
             => /\ IsRescaffoldCommit(repo.branches["ancestor"])
                /\ \/ repo.branches[b] = repo.branches["ancestor"]
                   \/ repo.commits[repo.branches[b]].parents = <<repo.branches["ancestor"]>>
    /\ MergeRan
          => /\ MergeBase(repo, repo.branches["current"], repo.branches["upgrade"]) = repo.branches["ancestor"]
             /\ repo.branches["ancestor"] \notin AncestorsOf(repo, world.repo0.branches[opts.FromBranch])
             /\ repo.branches["ancestor"] # Len(world.repo0.commits) + 1

BothSidesOffRescaffold ==
    /\ MergeRan /\ ~faulted
    /\ repo.branches["current"] # repo.branches["ancestor"]
    /\ repo.branches["upgrade"] # repo.branches["ancestor"]
    /\ repo.branches["current"] # repo.branches["upgrade"]
    /\ MergeBase(repo, repo.branches["current"], repo.branches["upgrade"]) = repo.branches["ancestor"]
    /\ IsRescaffoldCommit(repo.branches["ancestor"])

\* C34: the search path set up for the generator of the source version is
\* temporary: every step of the generate stage of ancestor, whether the
\* generator, the staging or the commit fails or all succeed, ends with PATH
\* as it was before the step, so every stage sees the original PATH.
PathRestoredOnEveryExit ==
    [][/\ pc = "runAlphaGenerate" => path' = path
       /\ path' = world.path0]_vars

GeneratorFailedPathRestored ==
    /\ Returned
    /\ cmds # <<>>
    /\ IsGenerateCmd(LastCmd, "runAlphaGenerate") /\ LastCmd.code # 0
    /\ LastCmd.tool = DownloadedBinary
    /\ err[1] = "failed to run alpha generate on ancestor branch"
    /\ tempDir \notin {world.path0[i] : i \in DOMAIN world.path0}
    /\ path = world.path0

\* "v" MAJOR "." MINOR "." PATCH
IsCanonicalVersion(s) ==
    /\ HasPrefixV(s)
    /\ LET a == ParseInt(s, 2)
       IN /\ a # 0 /\ a <= Len(s) /\ s[a] = "."
          /\ LET b == ParseInt(s, a + 1)
             IN /\ b # 0 /\ b <= Len(s) /\ s[b] = "."
                /\ LET c == ParseInt(s, b + 1)
                   IN c # 0 /\ c > Len(s)

\* C35: a source version that passes validation has the canonical form
\* vX.Y.Z: whenever the availability check or the download has issued its
\* request, the version the URL was built from has the prefix "v" and all
\* three numeric components.
ValidatedVersionIsCanonical ==
    (\E i \in DOMAIN cmds : cmds[i].tool = "http") => IsCanonicalVersion(opts.CliVersion)

\* the commit step of each builder: its message and the error it returns
BuilderCommits ==
    { [stage |-> "cleanUpAncestorBranch", msg |-> "Clean up the ancestor branch",
       error |-> "failed to commit the cleanup in ancestor branch"],
      [stage |-> "runAlphaGenerate", msg |-> "Re-scaffold in ancestor",
       error |-> "failed to commit changes in ancestor"],
      [stage |-> "checkoutCurrentOffAncestor", msg |-> "Add content from main onto current branch",
       error |-> "failed to commit changes"],
      [stage |-> "checkoutUpgradeOffAncestor", msg |-> "alpha generate in upgrade branch",
       error |-> "failed to commit changes in upgrade branch"] }
IsCommitOf(c, b) == c.stage = b.stage /\ c.tool = "git" /\ c.args = "commit -m " \o b.msg

\* C39: the builders do not tolerate an empty commit: none of their commits
\* has the tree of its parent, and a commit step of a builder that ends
\* non-zero, as it does with nothing to commit (the index is the tree of
\* HEAD), is the last command of the run, which has returned that stage's
\* commit error.
EmptyBuilderCommitIsFatal ==
    \A b \in BuilderCommits :
        /\ \A k \in (Len(world.repo0.commits) + 1) .. Len(repo.commits) :
              repo.commits[k].msg = b.msg
                 => repo.commits[k].tree # TreeOf(repo, repo.commits[k].parents[1])
        /\ \A i \in DOMAIN cmds :
              (IsCommitOf(cmds[i], b) /\ cmds[i].code # 0)
                 => /\ i = Len(cmds)
                    /\ Returned
                    /\ err = <<StagePrefix(b.stage), b.error>>
                    /\ ~faulted => cmds[i].code = 1 /\ repo.index = HeadTree(repo)

OverlayChangedNothingAborts ==
    /\ Returned /\ ~faulted
    /\ cmds # <<>>
    /\ LastCmd.stage = "checkoutCurrentOffAncestor"
    /\ LastCmd.args = "commit -m Add content from main onto current branch"
    /\ LastCmd.code = 1
    /\ BranchTree(opts.FromBranch) = BranchTree("ancestor")
    /\ repo.branches["current"] = repo.branches["ancestor"]
    /\ err = <<"failed to checkout current off ancestor", "failed to commit changes">>

\* C40: the overlay of the base branch adds and replaces files and removes
\* none: once the current-branch builder has committed, the tree of current
\* is the tree of the base branch plus every file only ancestor has, with
\* ancestor's content.
OverlayNeverRemoves ==
    CurrentCommitted
       => \A p \in Paths :
             BranchTree("current")[p] = IF BranchTree(opts.FromBranch)[p] # Absent
                                        THEN BranchTree(opts.FromBranch)[p]
                                        ELSE BranchTree("ancestor")[p]

DeletedScaffoldFileKeptOnCurrent ==
    /\ CurrentCommitted
    /\ BranchTree(opts.FromBranch)["api.go"] = Absent
    /\ BranchTree("ancestor")["api.go"] = Pristine
    /\ BranchTree("current")["api.go"] = Pristine

\* a branch named ancestor existed when the command started
AncestorExisted == BranchExists(world.repo0, "ancestor")

\* C38: the working branches are created, never reset: when a branch named
\* ancestor exists already, nothing in the repository ever changes, and once
\* the creation of ancestor is attempted it fails and is the last command of
\* the run, which has returned the error of the ancestor-creation stage: no
\* clean-up is run, no file is deleted and no commit is added.
ExistingAncestorStopsUpdate ==
    AncestorExisted
       => /\ repo = world.repo0
          /\ \A i \in DOMAIN cmds :
                /\ cmds[i].stage # "cleanUpAncestorBranch"
                /\ cmds[i].stage = "checkoutAncestorBranch"
                      => /\ cmds[i].args = "checkout -b ancestor"
                         /\ cmds[i].code # 0
                         /\ i = Len(cmds)
                         /\ Returned
                         /\ err = << "failed to checkout the ancestor branch",
                                     "failed to create and checkout ancestor branch" >>

LeftoverAncestorRefused ==
    /\ AncestorExisted
    /\ Returned /\ ~faulted
    /\ tempDir # ""
    /\ LastCmd.stage = "checkoutAncestorBranch" /\ LastCmd.code = 128
    /\ repo = world.repo0
    /\ err[1] = "failed to checkout the ancestor branch"

(***************************************************************************)
(* Properties of the squash and of the platform integration, checked       *)
(* under SquashSpec                                                        *)
(***************************************************************************)
IsSquashCmd(c) == c.stage = "squashToOutputBranch"
\* the create-or-reset of the output branch is the command after the
\* checkout of the base branch
ResetCmds == {i \in DOMAIN cmds : i > 1 /\ IsSquashCmd(cmds[i]) /\ IsSquashStart(cmds[i - 1])}
IsGhCmd(c) == c.stage = "openGitHub" /\ c.tool = "gh"
PrCreateCmds == {i \in DOMAIN cmds : IsGhCmd(cmds[i]) /\ cmds[i].args \notin {"--version", "issue create"}}
IssueCreateCmds == {i \in DOMAIN cmds : IsGhCmd(cmds[i]) /\ cmds[i].args = "issue create"}
ProbeCmds == {i \in DOMAIN cmds : IsGhCmd(cmds[i]) /\ cmds[i].args = "--version"}
\* the name the request calls for
ExpectedOutputBranch ==
    IF world.opts0.OutputBranch = "" THEN "kubebuilder-alpha-update-to-v4.6.0" ELSE world.opts0.OutputBranch
\* the commit of a squash has been run and the squash did not fail
SquashCommitCmds == {i \in DOMAIN cmds : /\ IsSquashCmd(cmds[i]) /\ cmds[i].tool = "git"
                                         /\ i > 1 /\ cmds[i - 1].args = "add --all"
                                         /\ IsSquashCmd(cmds[i - 1])}
SquashSucceeded ==
    /\ SquashCommitCmds # {}
    /\ (err # <<>> => err[1] # "failed to squash to output branch")

\* C22: the output branch is named by the override when one is given and
\* "kubebuilder-alpha-update-to-<target version>" otherwise; the branch the
\* squash creates or resets and the head of the pull request carry that name.
OutputBranchNameIsDeterministic ==
    /\ \A i \in ResetCmds : cmds[i].args = "checkout -B " \o ExpectedOutputBranch \o " main"
    /\ \A i \in PrCreateCmds : cmds[i].args = "pr create --base main --head " \o ExpectedOutputBranch
    /\ SquashSucceeded => repo.head = ExpectedOutputBranch /\ BranchExists(repo, ExpectedOutputBranch)

CustomBranchUsedForPullRequest ==
    /\ world.opts0.OutputBranch = CustomOutputBranch
    /\ repo.head = CustomOutputBranch
    /\ \E i \in PrCreateCmds : cmds[i].code = 0 /\ cmds[i].args = "pr create --base main --head my-custom-branch"

\* the last commit command of a squash
LastSquashCommit == cmds[SetMax(SquashCommitCmds)]
EarlierRunLeftBranch == world.repo0.branches[ExpectedOutputBranch] # NoCommit

\* C23: after a squash that succeeded the output branch is the head of the
\* base branch plus exactly one commit, or the head of the base branch itself
\* when there was nothing to commit; no commit an earlier run left on the
\* branch remains, however many times the squash is run.
OutputBranchIsBasePlusOne ==
    SquashSucceeded
       => LET o == repo.branches[ExpectedOutputBranch]
              b == repo.branches["main"]
          IN /\ b = world.repo0.branches["main"]
             /\ IF LastSquashCommit.code = 0
                THEN o # b /\ repo.commits[o].parents = <<b>>
                ELSE o = b
             /\ EarlierRunLeftBranch
                   => world.repo0.branches[ExpectedOutputBranch] \notin AncestorsOf(repo, o)

EarlierBranchResetTwice ==
    /\ SquashSucceeded
    /\ EarlierRunLeftBranch
    /\ SquashRuns = 2
    /\ LastSquashCommit.code = 0
    /\ repo.commits[repo.branches[ExpectedOutputBranch]].parents = <<repo.branches["main"]>>

\* the entries of --preserve-path that are not blank, trimmed
RECURSIVE PreservedFiles(_)
PreservedFiles(entries) ==
    IF entries = <<>> THEN {}
    ELSE (IF \A i \in DOMAIN Head(entries) : Head(entries)[i] \in {" ", "\t"}
          THEN {}
          ELSE {x \in Paths : \E i \in DOMAIN Head(entries) : Head(entries)[i] = x})
         \cup PreservedFiles(Tail(entries))

FileHasMarkers(content) == \E i \in DOMAIN content : content[i] = Marker

IsRestoreCmd(c) ==
    /\ IsSquashCmd(c)
    /\ c.tool = "git"
    /\ c.args \notin {"checkout main", "checkout merge -- .", "add --all"}
    /\ \E q \in PreservePathLists : \E i \in DOMAIN q :
          \E j \in DOMAIN q[i] : c.args = "restore --source main --staged --worktree " \o q[i][j]
RestoreCmds == {i \in DOMAIN cmds : IsRestoreCmd(cmds[i])}

\* C25: after a squash that succeeded every preserved path has on the output
\* branch the content the base branch has for it, not the merge's; and each
\* restore is run after the checkout of the merge tree and before the
\* staging that precedes the one commit.
PreservedPathsKeepBaseContent ==
    /\ SquashSucceeded
          => \A p \in PreservedFiles(world.opts0.PreservePath) :
                BranchTree(ExpectedOutputBranch)[p] = BranchTree("main")[p]
    /\ \A i \in RestoreCmds :
          /\ i > 1
          /\ cmds[i - 1].code = 0
          /\ cmds[i - 1].args = "checkout merge -- ." \/ (i - 1) \in RestoreCmds
          /\ (i < Len(cmds) /\ IsSquashCmd(cmds[i + 1]) /\ cmds[i].code = 0)
                => cmds[i + 1].args = "add --all" \/ (i + 1) \in RestoreCmds

MergedFileRestoredFromBase ==
    /\ SquashSucceeded
    /\ LastSquashCommit.code = 0
    /\ "api.go" \in PreservedFiles(world.opts0.PreservePath)
    /\ BranchTree("main")["api.go"] = <<0, 1>>
    /\ BranchTree("merge")["api.go"] = <<MaxVal, 1>>
    /\ BranchTree(ExpectedOutputBranch)["api.go"] = <<0, 1>>
    /\ BranchTree(ExpectedOutputBranch)[PROJECT] = BranchTree("merge")[PROJECT]

\* the restores each list of --preserve-path calls for, written out
ExpectedRestores ==
    LET pp == world.opts0.PreservePath
    IN IF pp = <<>> THEN <<>>
       ELSE IF Len(pp) = 3
       THEN << "restore --source main --staged --worktree api.go",
               "restore --source main --staged --worktree PROJECT" >>
       ELSE << "restore --source main --staged --worktree PROJECT",
               "restore --source main --staged --worktree api.go",
               "restore --source main --staged --worktree main.go" >>
MergeCheckouts == {i \in DOMAIN cmds : IsSquashCmd(cmds[i]) /\ cmds[i].args = "checkout merge -- ." /\ cmds[i].code = 0}

\* C26: after the checkout of the merge tree the squash issues one restore
\* for each entry of preservePaths that is not blank, with the entry trimmed
\* of surrounding whitespace, in the order given, none for a blank entry,
\* and then stages.
RestoresAreTrimmedNonBlankEntries ==
    \A m \in MergeCheckouts :
        LET n == Len(ExpectedRestores)
        IN \A k \in 1 .. (n + 1) :
              (/\ m + k <= Len(cmds)
               /\ \A j \in 1 .. (k - 1) : cmds[m + j].code = 0)
                 => /\ IsSquashCmd(cmds[m + k])
                    /\ cmds[m + k].args = IF k <= n THEN ExpectedRestores[k] ELSE "add --all"

PaddedEntryRestoredBlankSkipped ==
    /\ SquashSucceeded
    /\ world.opts0.PreservePath = << <<" ", "api.go", " ">>, <<>>, <<PROJECT>> >>
    /\ Cardinality(RestoreCmds) = 2 * SquashRuns
    /\ \E i \in RestoreCmds : /\ cmds[i].args = "restore --source main --staged --worktree api.go"
                              /\ cmds[i].code = 0
                              /\ cmds[i + 1].args = "restore --source main --staged --worktree PROJECT"

\* the commits the squash has made, whether or not a branch still holds them
ExpectedSquashMessage ==
    IF world.opts0.CommitMessage # "" THEN world.opts0.CommitMessage
    ELSE "[kubebuilder-automated-update]: update scaffold from v4.5.0 to v4.6.0; (squashed 3-way merge)"
SquashedCommits == {c \in DOMAIN repo.commits : /\ c > Len(world.repo0.commits)
                                                /\ repo.commits[c].msg = ExpectedSquashMessage}
\* the commit of a squash is the last command run, and it failed
SquashCommitJustFailed ==
    /\ cmds # <<>>
    /\ Len(cmds) \in SquashCommitCmds
    /\ LastCmd.code # 0

\* C27: a squash run a second time on the unchanged merge branch, no tool
\* breaking, succeeds like the first and leaves the output branch with the
\* same tree; a commit that fails because there is nothing to commit is a
\* success, a commit that fails otherwise is an error.
SquashIsIdempotent ==
    /\ (SquashRuns = 2 /\ ~faulted)
          => /\ err = <<>>
             /\ \A c \in SquashedCommits : repo.commits[c].tree = BranchTree(ExpectedOutputBranch)
             /\ SquashedCommits = {} => BranchTree(ExpectedOutputBranch) = BranchTree("main")
    /\ SquashCommitJustFailed
          => (err = <<>> <=> (LastCmd.code = 1 /\ repo.index = HeadTree(repo)))

NothingToCommitTwice ==
    /\ SquashRuns = 2
    /\ ~faulted
    /\ err = <<>>
    /\ Cardinality(SquashCommitCmds) = 2
    /\ \A i \in SquashCommitCmds : cmds[i].code = 1
    /\ BranchTree(ExpectedOutputBranch) = BranchTree("main")
    /\ BranchTree("merge") # BranchTree("main")

DefaultMessageWritten == "[kubebuilder-automated-update]: update scaffold from v4.5.0 to v4.6.0; (squashed 3-way merge)"

\* C28: each run of the squash commits once, with the message the user gave,
\* unchanged, when one is given, and otherwise with the default message that
\* names the source and the target version; when a message is given the
\* default one is in no command and no commit of the squash.
SquashCommitsOnceWithMessage ==
    /\ Cardinality(SquashCommitCmds) <= SquashRuns
    /\ \A i \in SquashCommitCmds :
          cmds[i].args = "commit --no-verify -m " \o ExpectedSquashMessage
    /\ (SquashSucceeded /\ LastSquashCommit.code = 0)
          => repo.commits[repo.branches[ExpectedOutputBranch]].msg = ExpectedSquashMessage
    /\ world.opts0.CommitMessage = ""
          => ExpectedSquashMessage = DefaultMessageWritten
    /\ world.opts0.CommitMessage # ""
          => /\ \A c \in DOMAIN repo.commits : repo.commits[c].msg # DefaultMessageWritten
             /\ \A i \in DOMAIN cmds : IsSquashCmd(cmds[i])
                   => cmds[i].args # "commit --no-verify -m " \o DefaultMessageWritten
    /\ Cardinality(SquashedCommits) <= SquashRuns

MultiLineMessageCommitted ==
    /\ SquashSucceeded
    /\ world.opts0.CommitMessage = MultiLineMessage
    /\ LastSquashCommit.code = 0
    /\ LastSquashCommit.args = "commit --no-verify -m " \o MultiLineMessage
    /\ repo.commits[repo.branches[ExpectedOutputBranch]].msg = MultiLineMessage

PlatformRequested == world.opts0.OpenPR \/ world.opts0.OpenIssue
ProbeFailed == \E j \in ProbeCmds : cmds[j].code # 0

\* C29: when a pull request or an issue is requested, 'gh --version' is run
\* before any 'pr create' or 'issue create', and only after it succeeded;
\* when it fails Update returns the 'gh CLI not found' error and runs
\* neither.
PlatformProbedFirst ==
    /\ \A i \in PrCreateCmds \cup IssueCreateCmds : \E j \in ProbeCmds : j < i /\ cmds[j].code = 0
    /\ ProbeCmds # {} => PlatformRequested
    /\ (Returned /\ PlatformRequested /\ SquashSucceeded /\ SquashRuns = 1) => ProbeCmds # {}
    /\ ProbeFailed
          => /\ Returned
             /\ err # <<>> /\ err[Len(err)] = "gh CLI not found"
             /\ PrCreateCmds \cup IssueCreateCmds = {}

PullRequestRefusedWithoutGh ==
    /\ world.opts0.OpenPR
    /\ ProbeFailed
    /\ err # <<>> /\ err[Len(err)] = "gh CLI not found"
    /\ PrCreateCmds = {}

\* gh was found, so the platform step went on to the requests
PlatformStepRan == ProbeCmds # {} /\ ~ProbeFailed
PrCreateFailed == \E i \in PrCreateCmds : cmds[i].code # 0

\* C30: 'pr create' is run only when openPullRequest is set; 'issue create'
\* is run exactly when openIssue is set and either openPullRequest is not set
\* or 'pr create' exited non-zero; when the pull request fails and the issue
\* is created in its place, Update returns nil.
IssueIsStandaloneOrFallback ==
    /\ PrCreateCmds # {} => world.opts0.OpenPR
    /\ Cardinality(PrCreateCmds) <= 1 /\ Cardinality(IssueCreateCmds) <= 1
    /\ PlatformStepRan
          => /\ world.opts0.OpenPR => PrCreateCmds # {}
             /\ IssueCreateCmds # {}
                   <=> (world.opts0.OpenIssue /\ (~world.opts0.OpenPR \/ PrCreateFailed))
    /\ ~PlatformStepRan => IssueCreateCmds = {}
    /\ (cmds # <<>> /\ Len(cmds) \in IssueCreateCmds /\ LastCmd.code = 0)
          => Returned /\ err = <<>>

IssueOpenedAfterFailedPullRequest ==
    /\ PrCreateFailed
    /\ \E i \in IssueCreateCmds : cmds[i].code = 0 /\ \A j \in PrCreateCmds : j < i
    /\ Returned
    /\ err = <<>>

\* the user's base branch and the branches the engine commits on
BaseBranch == DefaultFromBranch(world.opts0.FromBranch)
EngineBranches == {"ancestor", "current", "upgrade", "merge", ExpectedOutputBranch}
EngineCommits == (Len(world.repo0.commits) + 1) .. Len(repo.commits)

BothRuns == {ActiveRun, peer}
IsAncestorCheckout(c) == c.stage = "checkoutAncestorBranch" /\ c.args = "checkout -b ancestor"
CreatedAncestor(x) == \E i \in DOMAIN x.cmds : IsAncestorCheckout(x.cmds[i]) /\ x.cmds[i].code = 0
RefusedAncestor(x) == \E i \in DOMAIN x.cmds : IsAncestorCheckout(x.cmds[i]) /\ x.cmds[i].code # 0
\* both runs are past their validation and neither has returned
BothInProgress == \A x \in BothRuns : x.tempDir # "" /\ x.pc # "done"
\* a run was refused the creation of ancestor, none of its tools having
\* broken: the other run had created the branch
Collided == \E x \in BothRuns : RefusedAncestor(x) /\ ~x.faulted

\* the per-run branch properties, of the branches run x builds: ancestor is
\* the descriptor plus the scaffold of x's source version, current is
\* ancestor plus the overlay of x's base branch
BranchPropertiesOf(x) ==
    /\ SourceScaffoldCommitted
          => LET c == repo.commits[repo.branches["ancestor"]]
             IN /\ IsRescaffoldCommit(repo.branches["ancestor"])
                /\ c.tree[PROJECT] = world.repo0.wt[PROJECT]
                /\ \A p \in ScaffoldPaths : c.tree[p] = GenOf(x.opts.CliVersion)[p]
    /\ CurrentCommitted
          => /\ repo.commits[repo.branches["current"]].parents = <<repo.branches["ancestor"]>>
             /\ \A p \in Paths :
                   BranchTree("current")[p] = IF BranchTree(x.opts.FromBranch)[p] # Absent
                                              THEN BranchTree(x.opts.FromBranch)[p]
                                              ELSE BranchTree("ancestor")[p]

====
